---- MODULE Spec2Model ----
(***************************************************************************)
(* A model of the streaming diff engine of data-diff-checker:              *)
(* EfficientDiffer.compute_diff and the three passes of                    *)
(* EfficientDiffer._process_differences (src/src/diaz_diff_checker/        *)
(* differ.py), driven over two delimited files through the row iterators   *)
(* of StreamingCSVReader (src/src/data_diff_checker/csv_reader.py).        *)
(*                                                                         *)
(* Encoding.  A field value is a string; Python's None (the restval that   *)
(* csv.DictReader gives a field absent from a short row) is the reserved   *)
(* string PyNone, which no file contains.  An MD5 digest is the tagged     *)
(* string that was hashed, <<"md5", s>>: MD5 is taken to be injective, so  *)
(* two digests are equal exactly when the joined strings are equal.        *)
(***************************************************************************)
EXTENDS Integers, Sequences, FiniteSets, TLC

VARIABLES
    prod_file,          \* the production file: [header, rows]
    dev_file,           \* the development file
    primary_keys,       \* EfficientDiffer.primary_keys
    max_examples,       \* EfficientDiffer.max_examples
    max_rows,           \* EfficientDiffer.max_rows (NoCap = None)
    options,            \* other keyword arguments given to EfficientDiffer(...): {<<name, value>>}
    pc,                 \* position in compute_diff / _process_differences
    i,                  \* rows consumed by the running loop
    prod_index,         \* composite_key -> [line, full, comp, display]
    prod_order,         \* insertion order of prod_index (dict order)
    dev_index,          \* composite_key -> [line, full, comp]
    dev_order,          \* insertion order of dev_index
    counts,             \* rows_added, rows_removed, meaningful, excluded_only
    collected,          \* added/removed/changed examples_collected counters
    added_keys,
    all_changed_keys,
    meaningful_change_keys,
    excluded_only_keys,
    detailed_changes,   \* column -> tally (defaultdict(int))
    example_ids,
    example_ids_added,
    example_ids_removed,
    needed_prod_rows,   \* Pass 3: composite_key -> row values
    needed_dev_rows,    \* Pass 3: composite_key -> [line, row]
    todo,               \* keys of all_changed_keys not yet visited by the compare loop
    row_counts,         \* StreamingCSVReader._row_count of each reader (NotCounted = None)
    rows_streamed,      \* rows the readers' iterators have yielded in this call
    outcome,            \* the value compute_diff returned, or the error it raised
    prev,               \* what the previous compute_diff on the same files returned
    mode,               \* which entry point runs: "differ", "folder" or "url"
    test_cases,         \* test case -> what its fetches and its diff will do
    max_concurrent_fetches, \* args.max_concurrent_fetches
    max_concurrent_diffs,   \* args.max_concurrent_diffs
    runtime,            \* the version-dependent behaviours the interpreter and HTTP library have shown
    ready,              \* the event loop's FIFO queue of callbacks ready to run
    main,               \* position of run_folder_diff / run_url_mode itself
    fetch_task,         \* test case -> state of its process_test_case task
    diff_task,          \* test case -> state of its process_diff / bounded_diff task
    fetch_semaphore,
    diff_semaphore,
    results,            \* test case -> environments whose fetch result is recorded
    pending_diffs,
    diff_results,       \* test case -> the summary on_diff_complete stored
    diff_tasks,         \* the diff tasks process_test_case appended, in order
    gathered,           \* children the running asyncio.gather has seen finish
    started,            \* test case -> number of diff tasks ever created for it
    summary             \* the summaries written at the end

differ == <<prod_file, dev_file, primary_keys, max_examples, max_rows, options, pc, i,
            prod_index, prod_order, dev_index, dev_order, counts, collected,
            added_keys, all_changed_keys, meaningful_change_keys,
            excluded_only_keys, detailed_changes, example_ids,
            example_ids_added, example_ids_removed, needed_prod_rows,
            needed_dev_rows, todo, row_counts, rows_streamed, outcome, prev>>

orchestrator == <<mode, test_cases, max_concurrent_fetches, max_concurrent_diffs,
                  runtime, ready, main, fetch_task, diff_task, fetch_semaphore,
                  diff_semaphore, results, pending_diffs, diff_results,
                  diff_tasks, gathered, started, summary>>

vars == <<differ, orchestrator>>

inputs == <<prod_file, dev_file, primary_keys, max_rows, options>>

(***************************************************************************)
(* Bounds of the model.                                                    *)
(***************************************************************************)
MaxTotalRows == 3      \* Spec: data rows of the two files together
MaxDupRows == 2        \* SpecDup: data rows of each file
MaxExamplesBound == 1  \* max_examples ranges over 0..MaxExamplesBound
MaxRowCap == 2         \* max_rows is None or MaxRowCap

(***************************************************************************)
(* Python values and string helpers.                                       *)
(***************************************************************************)
PyNone == "<None>"
NoCap == -1
NotCounted == -1
NoOutcome == [kind |-> "none"]
EmptyMap == [x \in {} |-> 0]

\* str(v)
Str(v) == IF v = PyNone THEN "None" ELSE v

\* sep.join(parts)
RECURSIVE Join(_, _)
Join(parts, sep) ==
    IF Len(parts) = 0 THEN ""
    ELSE IF Len(parts) = 1 THEN parts[1]
    ELSE parts[1] \o sep \o Join(Tail(parts), sep)

\* the characters of column names, in code-point order
Alphabet == "0123456789ABCDEFGHIJKLMNOPQRSTUVWXYZ_abcdefghijklmnopqrstuvwxyz"
UpperCase == "ABCDEFGHIJKLMNOPQRSTUVWXYZ"
LowerCase == "abcdefghijklmnopqrstuvwxyz"

Char(s, n) == SubSeq(s, n, n)

IndexIn(ch, str) ==
    IF \E n \in 1..Len(str) : Char(str, n) = ch
    THEN CHOOSE n \in 1..Len(str) : Char(str, n) = ch
    ELSE 0

\* str.lower()
RECURSIVE Lower(_)
Lower(s) ==
    IF Len(s) = 0 THEN ""
    ELSE LET ch == Char(s, 1)
             u == IndexIn(ch, UpperCase)
         IN  (IF u > 0 THEN Char(LowerCase, u) ELSE ch)
             \o Lower(SubSeq(s, 2, Len(s)))

\* p in s
Contains(s, p) ==
    \E n \in 1..(Len(s) - Len(p) + 1) : SubSeq(s, n, n + Len(p) - 1) = p

\* a < b for Python strings
RECURSIVE StrLess(_, _)
StrLess(a, b) ==
    IF Len(b) = 0 THEN FALSE
    ELSE IF Len(a) = 0 THEN TRUE
    ELSE LET x == IndexIn(Char(a, 1), Alphabet)
             y == IndexIn(Char(b, 1), Alphabet)
         IN  IF x # y THEN x < y
             ELSE StrLess(SubSeq(a, 2, Len(a)), SubSeq(b, 2, Len(b)))

\* sorted(S) for a set of strings, by comparison
RECURSIVE SortStrings(_)
SortStrings(S) ==
    IF S = {} THEN <<>>
    ELSE LET m == CHOOSE x \in S : \A y \in S \ {x} : StrLess(x, y)
         IN  <<m>> \o SortStrings(S \ {m})

\* every column name that occurs in a header or a key list of the model
ColumnNames ==
    {"id", "name", "inventory", "sku", "title", "inventory_id", "Availability",
     "locale"}

\* sorted(ColumnNames), evaluated once
SortedColumnNames == SortStrings(ColumnNames)

\* sorted(S) for S a set of column names: S in the order of sorted(ColumnNames)
Sorted(S) == SelectSeq(SortedColumnNames, LAMBDA c : c \in S)

Range(s) == {s[n] : n \in 1..Len(s)}

\* d[k] = v on a dict held as a function
Put(d, k, v) == [x \in DOMAIN d \cup {k} |-> IF x = k THEN v ELSE d[x]]

\* dict.get(k, default)
Get(d, k, default) == IF k \in DOMAIN d THEN d[k] ELSE default

(***************************************************************************)
(* StreamingCSVReader.  A file is [header |-> <<column names>>,            *)
(* rows |-> <<[f, gap, span]>>]: f the fields of one logical data row,     *)
(* gap the blank lines before it, span the physical lines it occupies.     *)
(* Names and fields are written comma-separated unless the file says with  *)
(* which character its header line (hdelim) and its data lines (ddelim)    *)
(* are written; every line ends in a line break.                           *)
(***************************************************************************)
Tab == "\t"
Comma == ","

\* str.count(ch)
RECURSIVE Count(_, _)
Count(s, ch) ==
    IF Len(s) = 0 THEN 0
    ELSE (IF Char(s, 1) = ch THEN 1 ELSE 0) + Count(SubSeq(s, 2, Len(s)), ch)

\* the fields csv.reader makes of a line without quotes
RECURSIVE Split(_, _)
Split(line, delim) ==
    IF \A n \in 1..Len(line) : Char(line, n) # delim THEN <<line>>
    ELSE LET n == CHOOSE m \in 1..Len(line) :
                    /\ Char(line, m) = delim
                    /\ \A k \in 1..(m - 1) : Char(line, k) # delim
         IN  <<SubSeq(line, 1, n - 1)>> \o Split(SubSeq(line, n + 1, Len(line)), delim)

\* str.strip(chars)
RECURSIVE StripChars(_, _)
StripChars(s, chars) ==
    IF Len(s) = 0 THEN s
    ELSE IF Char(s, 1) \in chars THEN StripChars(SubSeq(s, 2, Len(s)), chars)
    ELSE IF Char(s, Len(s)) \in chars THEN StripChars(SubSeq(s, 1, Len(s) - 1), chars)
    ELSE s

Whitespace == {" ", "\t", "\n", "\r"}

_normalize_key(key) == StripChars(StripChars(key, Whitespace), {"\""})

\* whether the file says how its lines are delimited
MixedDelimiters(file) == "hdelim" \in DOMAIN file

\* lines[0] and lines[1] of the first sample
HeaderLine(file) ==
    Join(file.header, IF MixedDelimiters(file) THEN file.hdelim ELSE Comma)

DataLine(file, r) == Join(r.f, IF MixedDelimiters(file) THEN file.ddelim ELSE Comma)

FirstDataLine(file) ==
    IF file.rows = <<>> \/ file.rows[1].gap > 0 THEN ""
    ELSE DataLine(file, file.rows[1])

\* "\t" if tabs > commas else ","
DelimiterOf(line) == IF Count(line, Tab) > Count(line, Comma) THEN Tab ELSE Comma

\* _detect_delimiters with no delimiter configured
_header_delimiter(file) == DelimiterOf(HeaderLine(file))
delimiter(file) == DelimiterOf(FirstDataLine(file))

NormalizedKeys(names) == [n \in DOMAIN names |-> _normalize_key(names[n])]

\* the names of the header line, parsed with the header delimiter
read_headers(file) ==
    IF MixedDelimiters(file)
    THEN NormalizedKeys(Split(HeaderLine(file), _header_delimiter(file)))
    ELSE file.header

\* csv.DictReader.fieldnames, which the DictReader parses from the first line
\* with the data delimiter; the reader normalises them in each row it yields
fieldnames(file) ==
    IF MixedDelimiters(file)
    THEN NormalizedKeys(Split(HeaderLine(file), delimiter(file)))
    ELSE file.header

\* the fields csv.DictReader parses from a data row
Fields(file, r) ==
    IF MixedDelimiters(file) THEN Split(DataLine(file, r), delimiter(file)) ELSE r.f

\* the dict csv.DictReader builds from one row: restval None for a field the
\* row lacks; fields beyond the header go under key None, which the reader drops
RowDict(file, r) ==
    LET names == fieldnames(file)
        fields == Fields(file, r)
    IN  [c \in Range(names) |->
            LET n == CHOOSE m \in 1..Len(names) : names[m] = c
            IN  IF n <= Len(fields) THEN fields[n] ELSE PyNone]

\* the physical lines the header record occupies: a quoted column name may
\* hold a line break (a file without the field has a one-line header)
HeaderLines(file) == IF "hlines" \in DOMAIN file THEN file.hlines ELSE 1

\* reader.line_num once the header and the first n data rows have been read
RECURSIVE LineEnd(_, _)
LineEnd(file, n) ==
    IF n = 0 THEN HeaderLines(file)
    ELSE LineEnd(file, n - 1) + file.rows[n].gap + file.rows[n].span

\* prev_line_end when the n-th data row comes out of the DictReader: 1 before
\* the first row, reader.line_num of the previous row afterwards
prev_line_end(file, n) == IF n = 1 THEN 1 ELSE LineEnd(file, n - 1)

\* rows iterate_rows_with_line_numbers yields
RowsYielded(file, cap) ==
    IF cap = NoCap \/ cap > Len(file.rows) THEN Len(file.rows) ELSE cap

\* the n-th pair (row_start_line, row) of iterate_rows_with_line_numbers
iterate_rows_with_line_numbers(file, n) ==
    [line |-> prev_line_end(file, n) + 1, row |-> RowDict(file, file.rows[n])]

\* the records csv.reader returns after the header: blank lines come as []
RECURSIVE RawRecords(_, _)
RawRecords(file, n) ==
    IF n = 0 THEN 0
    ELSE RawRecords(file, n - 1) + file.rows[n].gap + 1

count_rows(file, cap) ==
    LET total == RawRecords(file, Len(file.rows))
    IN  IF cap = NoCap THEN total
        ELSE IF total = 0 THEN 0
        ELSE IF cap <= 1 THEN 1
        ELSE IF cap < total THEN cap ELSE total

(***************************************************************************)
(* EfficientDiffer: keys, digests, noise columns.                          *)
(***************************************************************************)
EXCLUDED_COLUMN_PATTERNS == <<"inventory", "availability", "_fdx">>

MatchesExcludedPattern(column_name) ==
    \E n \in 1..Len(EXCLUDED_COLUMN_PATTERNS) :
        Contains(Lower(column_name), Lower(EXCLUDED_COLUMN_PATTERNS[n]))

\* MatchesExcludedPattern on every column name, evaluated once
ExcludedColumnNames == {c \in ColumnNames : MatchesExcludedPattern(c)}

_is_excluded_column(column_name) == column_name \in ExcludedColumnNames

_make_composite_key(row) ==
    Join([n \in 1..Len(primary_keys) |-> Str(Get(row, primary_keys[n], ""))], "||")

\* (variant: an absent value is shown as str(None))
_get_primary_key_display_str(row) ==
    IF Len(primary_keys) = 1 THEN Str(Get(row, primary_keys[1], PyNone))
    ELSE Join([n \in 1..Len(primary_keys) |-> Str(Get(row, primary_keys[n], PyNone))], "_")

_get_primary_key_display(row) ==
    LET part(k) == IF Get(row, k, PyNone) = PyNone THEN "<missing>"
                   ELSE Str(row[k])
    IN  IF Len(primary_keys) = 1 THEN part(primary_keys[1])
        ELSE Join([n \in 1..Len(primary_keys) |-> part(primary_keys[n])], "_")

md5(s) == <<"md5", s>>

_hash_row(row, keys) ==
    LET ks == Sorted(keys)
    IN  md5(Join([n \in 1..Len(ks) |-> Str(Get(row, ks[n], ""))], "|"))

prod_headers == Range(read_headers(prod_file))
dev_headers == Range(read_headers(dev_file))
missing_prod == SelectSeq(primary_keys, LAMBDA k : k \notin prod_headers)
\* (variant: the development header is not validated)
missing_dev_unchecked == <<>>

missing_dev == SelectSeq(primary_keys, LAMBDA k : k \notin dev_headers)
common_keys == prod_headers \cap dev_headers
\* (variant: the common columns are not taken out)
prod_only_keys_unfiltered == prod_headers

prod_only_keys == prod_headers \ dev_headers
dev_only_keys == dev_headers \ prod_headers
excluded_columns == {k \in common_keys : _is_excluded_column(k)}
comparison_keys == common_keys \ excluded_columns

full_hash(row) == _hash_row(row, common_keys)
\* (variant: the significant digest is always taken over comparison_keys)
comp_hash_over_comparison_keys(row) == _hash_row(row, comparison_keys)

comp_hash(row) ==
    IF comparison_keys # {} THEN _hash_row(row, comparison_keys) ELSE full_hash(row)

ProdRow(n) == iterate_rows_with_line_numbers(prod_file, n)
DevRow(n) == iterate_rows_with_line_numbers(dev_file, n)
ProdLen == RowsYielded(prod_file, max_rows)
DevLen == RowsYielded(dev_file, max_rows)

(***************************************************************************)
(* The state at the start of a compute_diff call.                          *)
(***************************************************************************)
FreshRun ==
    /\ pc = "start"
    /\ i = 0
    /\ prod_index = EmptyMap
    /\ prod_order = <<>>
    /\ dev_index = EmptyMap
    /\ dev_order = <<>>
    /\ counts = [added |-> 0, removed |-> 0, meaningful |-> 0, excluded_only |-> 0]
    /\ collected = [added |-> 0, removed |-> 0, changed |-> 0]
    /\ added_keys = {}
    /\ all_changed_keys = {}
    /\ meaningful_change_keys = {}
    /\ excluded_only_keys = {}
    /\ detailed_changes = EmptyMap
    /\ example_ids = EmptyMap
    /\ example_ids_added = EmptyMap
    /\ example_ids_removed = EmptyMap
    /\ needed_prod_rows = EmptyMap
    /\ needed_dev_rows = EmptyMap
    /\ todo = {}
    /\ row_counts = [prod |-> NotCounted, dev |-> NotCounted]
    /\ rows_streamed = 0
    /\ outcome = NoOutcome

(***************************************************************************)
(* compute_diff: header validation, then _process_differences.             *)
(***************************************************************************)
KeyError(side, missing, headers) ==
    [kind |-> "error", side |-> side, missing |-> missing,
     available |-> Sorted(headers)]

\* the parameters EfficientDiffer.__init__ declares
InitParameters == {"primary_keys", "max_examples", "max_rows", "excluded_patterns"}

\* the keyword arguments __init__ does not declare
unexpected_keywords == {o[1] : o \in options} \ InitParameters

TypeError(keywords) == [kind |-> "error", error |-> "TypeError", unexpected |-> keywords]

Start ==
    /\ pc = "start"
    /\ IF unexpected_keywords # {}
       THEN /\ outcome' = TypeError(unexpected_keywords)
            /\ pc' = "error"
            /\ UNCHANGED row_counts
       ELSE IF missing_prod # <<>>
       THEN /\ outcome' = KeyError("production", missing_prod, prod_headers)
            /\ pc' = "error"
            /\ UNCHANGED row_counts
       ELSE IF missing_dev # <<>>
       THEN /\ outcome' = KeyError("development", missing_dev, dev_headers)
            /\ pc' = "error"
            /\ UNCHANGED row_counts
       ELSE /\ pc' = "pass1"
            /\ row_counts' = [row_counts EXCEPT !.prod = count_rows(prod_file, max_rows)]
            /\ UNCHANGED outcome
    /\ UNCHANGED <<orchestrator, inputs, max_examples, prev, i, prod_index, prod_order,
                   dev_index, dev_order, counts, collected, added_keys,
                   all_changed_keys, meaningful_change_keys, excluded_only_keys,
                   detailed_changes, example_ids, example_ids_added,
                   example_ids_removed, needed_prod_rows, needed_dev_rows, todo,
                   rows_streamed>>

\* (variant: the order lists a key once for every row that carries it)
KeyOrderEveryRow(index, order, key) == Append(order, key)

\* the order in which index.items() lists the keys, after index[key] = ...:
\* a dict keeps a key at the place of its first insertion
KeyOrder(index, order, key) ==
    IF key \in DOMAIN index THEN order ELSE Append(order, key)

\* Phase 1: one row of the production scan
ProdIndexEntry(r) ==
    [line |-> r.line, full |-> full_hash(r.row), comp |-> comp_hash(r.row),
     display |-> _get_primary_key_display(r.row)]

IndexProdRow(index, key, r) == Put(index, key, ProdIndexEntry(r))

Pass1Row ==
    /\ pc = "pass1"
    /\ i < ProdLen
    /\ LET r == ProdRow(i + 1)
           composite_key == _make_composite_key(r.row)
       IN  /\ prod_index' = IndexProdRow(prod_index, composite_key, r)
           /\ prod_order' = KeyOrder(prod_index, prod_order, composite_key)
    /\ i' = i + 1
    /\ rows_streamed' = rows_streamed + 1
    /\ UNCHANGED <<orchestrator, inputs, max_examples, prev, pc, dev_index, dev_order, counts,
                   collected, added_keys, all_changed_keys,
                   meaningful_change_keys, excluded_only_keys, detailed_changes,
                   example_ids, example_ids_added, example_ids_removed,
                   needed_prod_rows, needed_dev_rows, todo, row_counts, outcome>>

Pass1Done ==
    /\ pc = "pass1"
    /\ i = ProdLen
    /\ pc' = "pass2"
    /\ i' = 0
    /\ row_counts' = [row_counts EXCEPT !.dev = count_rows(dev_file, max_rows)]
    /\ UNCHANGED <<orchestrator, inputs, max_examples, prev, prod_index, prod_order, dev_index,
                   dev_order, counts, collected, added_keys, all_changed_keys,
                   meaningful_change_keys, excluded_only_keys, detailed_changes,
                   example_ids, example_ids_added, example_ids_removed,
                   needed_prod_rows, needed_dev_rows, todo, rows_streamed, outcome>>

\* Phase 2: one row of the development scan
DevIndexEntry(r) ==
    [line |-> r.line, full |-> full_hash(r.row), comp |-> comp_hash(r.row)]

\* (variant: the first occurrence of a key is kept)
IndexDevRowFirstWins(index, key, r) ==
    IF key \in DOMAIN index THEN index ELSE Put(index, key, DevIndexEntry(r))

IndexDevRow(index, key, r) == Put(index, key, DevIndexEntry(r))

\* (variant: every added row is recorded as an example)
AddedExampleAlways == TRUE

\* whether the added row is also recorded as an example
AddedExampleWanted == collected.added < max_examples

\* (variant: every dev row whose key is not in prod counts)
IsNewAdditionEveryRow(key) == key \notin DOMAIN prod_index

\* whether a dev row with this key counts as an addition
IsNewAddition(key) == key \notin DOMAIN prod_index /\ key \notin added_keys

Pass2Row ==
    /\ pc = "pass2"
    /\ i < DevLen
    /\ LET r == DevRow(i + 1)
           composite_key == _make_composite_key(r.row)
       IN  /\ dev_index' = IndexDevRow(dev_index, composite_key, r)
           /\ dev_order' = KeyOrder(dev_index, dev_order, composite_key)
           /\ IF IsNewAddition(composite_key)
              THEN /\ counts' = [counts EXCEPT !.added = @ + 1]
                   /\ added_keys' = added_keys \cup {composite_key}
                   /\ IF AddedExampleWanted
                      THEN /\ example_ids_added' =
                                Put(example_ids_added,
                                    _get_primary_key_display(r.row),
                                    [dev_line_num |-> r.line])
                           /\ collected' = [collected EXCEPT !.added = @ + 1]
                      ELSE UNCHANGED <<example_ids_added, collected>>
              ELSE UNCHANGED <<counts, added_keys, example_ids_added, collected>>
    /\ i' = i + 1
    /\ rows_streamed' = rows_streamed + 1
    /\ UNCHANGED <<orchestrator, inputs, max_examples, prev, pc, prod_index, prod_order,
                   all_changed_keys, meaningful_change_keys, excluded_only_keys,
                   detailed_changes, example_ids, example_ids_removed,
                   needed_prod_rows, needed_dev_rows, todo, row_counts, outcome>>

Pass2Done ==
    /\ pc = "pass2"
    /\ i = DevLen
    /\ pc' = "classify"
    /\ i' = 0
    /\ UNCHANGED <<orchestrator, inputs, max_examples, prev, prod_index, prod_order, dev_index,
                   dev_order, counts, collected, added_keys, all_changed_keys,
                   meaningful_change_keys, excluded_only_keys, detailed_changes,
                   example_ids, example_ids_added, example_ids_removed,
                   needed_prod_rows, needed_dev_rows, todo, row_counts,
                   rows_streamed, outcome>>

\* (variant: a key counts as changed when its significant digests differ)
IsChangedBySignificantDigest(prod_entry, dev_entry) == dev_entry.comp # prod_entry.comp

\* whether the entries of a key of both indexes make it a changed key
IsChanged(prod_entry, dev_entry) == dev_entry.full # prod_entry.full

\* Phase 2, hash comparison: one key of dev_index.items()
ClassifyKey ==
    /\ pc = "classify"
    /\ i < Len(dev_order)
    /\ LET composite_key == dev_order[i + 1]
           d == dev_index[composite_key]
       IN  IF composite_key \in DOMAIN prod_index
              /\ IsChanged(prod_index[composite_key], d)
           THEN /\ all_changed_keys' = all_changed_keys \cup {composite_key}
                /\ IF d.comp # prod_index[composite_key].comp
                   THEN /\ counts' = [counts EXCEPT !.meaningful = @ + 1]
                        /\ meaningful_change_keys' =
                             meaningful_change_keys \cup {composite_key}
                        /\ UNCHANGED excluded_only_keys
                   ELSE /\ counts' = [counts EXCEPT !.excluded_only = @ + 1]
                        /\ excluded_only_keys' =
                             excluded_only_keys \cup {composite_key}
                        /\ UNCHANGED meaningful_change_keys
           ELSE UNCHANGED <<all_changed_keys, counts, meaningful_change_keys,
                            excluded_only_keys>>
    /\ i' = i + 1
    /\ UNCHANGED <<orchestrator, inputs, max_examples, prev, pc, prod_index, prod_order,
                   dev_index, dev_order, collected, added_keys, detailed_changes,
                   example_ids, example_ids_added, example_ids_removed,
                   needed_prod_rows, needed_dev_rows, todo, row_counts,
                   rows_streamed, outcome>>

ClassifyDone ==
    /\ pc = "classify"
    /\ i = Len(dev_order)
    /\ pc' = "removed"
    /\ i' = 0
    /\ UNCHANGED <<orchestrator, inputs, max_examples, prev, prod_index, prod_order, dev_index,
                   dev_order, counts, collected, added_keys, all_changed_keys,
                   meaningful_change_keys, excluded_only_keys, detailed_changes,
                   example_ids, example_ids_added, example_ids_removed,
                   needed_prod_rows, needed_dev_rows, todo, row_counts,
                   rows_streamed, outcome>>

\* whether the removed row is also recorded as an example
RemovedExampleWanted == collected.removed < max_examples

\* (variant: a changed key also counts as removed)
IsRemovedOrChanged(key) == key \notin DOMAIN dev_index \/ key \in all_changed_keys

\* whether a key of prod_index counts as a removal
IsRemoved(key) == key \notin DOMAIN dev_index

\* Phase 2, removed rows: one key of prod_index.items()
RemovedKey ==
    /\ pc = "removed"
    /\ i < Len(prod_order)
    /\ LET composite_key == prod_order[i + 1]
           p == prod_index[composite_key]
       IN  IF IsRemoved(composite_key)
           THEN /\ counts' = [counts EXCEPT !.removed = @ + 1]
                /\ IF RemovedExampleWanted
                   THEN /\ example_ids_removed' =
                             Put(example_ids_removed, p.display,
                                 [prod_line_num |-> p.line])
                        /\ collected' = [collected EXCEPT !.removed = @ + 1]
                   ELSE UNCHANGED <<example_ids_removed, collected>>
           ELSE UNCHANGED <<counts, example_ids_removed, collected>>
    /\ i' = i + 1
    /\ UNCHANGED <<orchestrator, inputs, max_examples, prev, pc, prod_index, prod_order,
                   dev_index, dev_order, added_keys, all_changed_keys,
                   meaningful_change_keys, excluded_only_keys, detailed_changes,
                   example_ids, example_ids_added, needed_prod_rows,
                   needed_dev_rows, todo, row_counts, rows_streamed, outcome>>

RemovedDone ==
    /\ pc = "removed"
    /\ i = Len(prod_order)
    /\ pc' = IF all_changed_keys # {} THEN "pass3_prod" ELSE "finish"
    /\ i' = 0
    /\ UNCHANGED <<orchestrator, inputs, max_examples, prev, prod_index, prod_order, dev_index,
                   dev_order, counts, collected, added_keys, all_changed_keys,
                   meaningful_change_keys, excluded_only_keys, detailed_changes,
                   example_ids, example_ids_added, example_ids_removed,
                   needed_prod_rows, needed_dev_rows, todo, row_counts,
                   rows_streamed, outcome>>

\* (variant: the row of every key is kept)
IsNeededEveryRow(key) == TRUE

\* whether Phase 3 keeps the row of the key
IsNeeded(key) == key \in all_changed_keys

\* (variant: the first occurrence of a key is kept)
KeepProdRowFirstWins(needed, key, r) ==
    IF key \in DOMAIN needed THEN needed
    ELSE Put(needed, key, [k \in common_keys |-> Get(r.row, k, "")])

\* Phase 3: one row of the second production scan
KeepProdRow(needed, key, r) ==
    Put(needed, key, [k \in common_keys |-> Get(r.row, k, "")])

Pass3ProdRow ==
    /\ pc = "pass3_prod"
    /\ i < ProdLen
    /\ LET r == ProdRow(i + 1)
           composite_key == _make_composite_key(r.row)
       IN  needed_prod_rows' =
               IF IsNeeded(composite_key)
               THEN KeepProdRow(needed_prod_rows, composite_key, r)
               ELSE needed_prod_rows
    /\ i' = i + 1
    /\ rows_streamed' = rows_streamed + 1
    /\ UNCHANGED <<orchestrator, inputs, max_examples, prev, pc, prod_index, prod_order,
                   dev_index, dev_order, counts, collected, added_keys,
                   all_changed_keys, meaningful_change_keys, excluded_only_keys,
                   detailed_changes, example_ids, example_ids_added,
                   example_ids_removed, needed_dev_rows, todo, row_counts,
                   outcome>>

Pass3ProdDone ==
    /\ pc = "pass3_prod"
    /\ i = ProdLen
    /\ pc' = "pass3_dev"
    /\ i' = 0
    /\ UNCHANGED <<orchestrator, inputs, max_examples, prev, prod_index, prod_order, dev_index,
                   dev_order, counts, collected, added_keys, all_changed_keys,
                   meaningful_change_keys, excluded_only_keys, detailed_changes,
                   example_ids, example_ids_added, example_ids_removed,
                   needed_prod_rows, needed_dev_rows, todo, row_counts,
                   rows_streamed, outcome>>

\* Phase 3: one row of the second development scan
KeepDevRow(needed, key, r) ==
    Put(needed, key,
        [line |-> r.line, row |-> [k \in common_keys |-> Get(r.row, k, "")]])

Pass3DevRow ==
    /\ pc = "pass3_dev"
    /\ i < DevLen
    /\ LET r == DevRow(i + 1)
           composite_key == _make_composite_key(r.row)
       IN  needed_dev_rows' =
               IF IsNeeded(composite_key)
               THEN KeepDevRow(needed_dev_rows, composite_key, r)
               ELSE needed_dev_rows
    /\ i' = i + 1
    /\ rows_streamed' = rows_streamed + 1
    /\ UNCHANGED <<orchestrator, inputs, max_examples, prev, pc, prod_index, prod_order,
                   dev_index, dev_order, counts, collected, added_keys,
                   all_changed_keys, meaningful_change_keys, excluded_only_keys,
                   detailed_changes, example_ids, example_ids_added,
                   example_ids_removed, needed_prod_rows, todo, row_counts,
                   outcome>>

Pass3DevDone ==
    /\ pc = "pass3_dev"
    /\ i = DevLen
    /\ pc' = "compare"
    /\ i' = 0
    /\ todo' = all_changed_keys
    /\ UNCHANGED <<orchestrator, inputs, max_examples, prev, prod_index, prod_order, dev_index,
                   dev_order, counts, collected, added_keys, all_changed_keys,
                   meaningful_change_keys, excluded_only_keys, detailed_changes,
                   example_ids, example_ids_added, example_ids_removed,
                   needed_prod_rows, needed_dev_rows, row_counts, rows_streamed,
                   outcome>>

\* whether the changed row is also recorded as an example
ChangedExampleWanted == collected.changed < max_examples

\* (variant: columns are tallied only while examples are still collected)
MeaningfulDiffColumnsWhileCollecting(prod_row, dev_row) ==
    IF ChangedExampleWanted
    THEN {key \in common_keys :
            /\ Get(prod_row, key, "") # Get(dev_row, key, "")
            /\ ~_is_excluded_column(key)}
    ELSE {}

\* the common non-noise columns in which the two retained rows differ
MeaningfulDiffColumns(prod_row, dev_row) ==
    {key \in common_keys :
        /\ Get(prod_row, key, "") # Get(dev_row, key, "")
        /\ ~_is_excluded_column(key)}

\* Phase 3, compare loop: one key of the set all_changed_keys (a set has no
\* defined iteration order, so any unvisited key may come next)
CompareKey ==
    /\ pc = "compare"
    /\ \E composite_key \in todo :
        /\ todo' = todo \ {composite_key}
        /\ IF composite_key \notin DOMAIN needed_prod_rows
              \/ composite_key \notin DOMAIN needed_dev_rows
           THEN UNCHANGED <<detailed_changes, example_ids, collected>>
           ELSE LET prod_row == needed_prod_rows[composite_key]
                    dev_line_num == needed_dev_rows[composite_key].line
                    dev_row == needed_dev_rows[composite_key].row
                    is_meaningful == composite_key \in meaningful_change_keys
                    cols == MeaningfulDiffColumns(prod_row, dev_row)
                    has_meaningful_change == cols # {}
                IN  /\ detailed_changes' =
                         [key \in DOMAIN detailed_changes \cup cols |->
                            Get(detailed_changes, key, 0)
                            + (IF key \in cols THEN 1 ELSE 0)]
                    /\ IF is_meaningful /\ has_meaningful_change
                          /\ ChangedExampleWanted
                       THEN /\ example_ids' =
                                 Put(example_ids,
                                     _get_primary_key_display(dev_row),
                                     [prod_line_num |-> prod_index[composite_key].line,
                                      dev_line_num |-> dev_line_num])
                            /\ collected' = [collected EXCEPT !.changed = @ + 1]
                       ELSE UNCHANGED <<example_ids, collected>>
    /\ UNCHANGED <<orchestrator, inputs, max_examples, prev, pc, i, prod_index, prod_order,
                   dev_index, dev_order, counts, added_keys, all_changed_keys,
                   meaningful_change_keys, excluded_only_keys,
                   example_ids_added, example_ids_removed, needed_prod_rows,
                   needed_dev_rows, row_counts, rows_streamed, outcome>>

CompareDone ==
    /\ pc = "compare"
    /\ todo = {}
    /\ pc' = "finish"
    /\ needed_prod_rows' = EmptyMap
    /\ needed_dev_rows' = EmptyMap
    /\ UNCHANGED <<orchestrator, inputs, max_examples, prev, i, prod_index, prod_order,
                   dev_index, dev_order, counts, collected, added_keys,
                   all_changed_keys, meaningful_change_keys, excluded_only_keys,
                   detailed_changes, example_ids, example_ids_added,
                   example_ids_removed, todo, row_counts, rows_streamed, outcome>>

\* the dict compute_diff returns
DiffResult ==
    [kind |-> "result",
     rows_added |-> counts.added,
     rows_removed |-> counts.removed,
     rows_updated |-> counts.meaningful,
     rows_updated_excluded_only |-> counts.excluded_only,
     detailed_key_update_counts |-> detailed_changes,
     example_ids |-> example_ids,
     example_ids_added |-> example_ids_added,
     example_ids_removed |-> example_ids_removed,
     optional_keys |->
         (IF example_ids_added # EmptyMap THEN {"example_ids_added"} ELSE {})
         \cup (IF example_ids_removed # EmptyMap THEN {"example_ids_removed"} ELSE {}),
     common_keys |-> Sorted(common_keys),
     prod_only_keys |-> Sorted(prod_only_keys),
     dev_only_keys |-> Sorted(dev_only_keys),
     prod_row_count |-> row_counts.prod,
     dev_row_count |-> row_counts.dev]

Finish ==
    /\ pc = "finish"
    /\ pc' = "done"
    /\ outcome' = DiffResult
    /\ UNCHANGED <<orchestrator, inputs, max_examples, prev, i, prod_index, prod_order,
                   dev_index, dev_order, counts, collected, added_keys,
                   all_changed_keys, meaningful_change_keys, excluded_only_keys,
                   detailed_changes, example_ids, example_ids_added,
                   example_ids_removed, needed_prod_rows, needed_dev_rows, todo,
                   row_counts, rows_streamed>>

(***************************************************************************)
(* A second compute_diff, by a new EfficientDiffer, once the first has     *)
(* returned: on the same two files with any example cap, or on the two     *)
(* files swapped with the same cap.  prev keeps what the first returned.   *)
(***************************************************************************)
NoPrev == [kind |-> "none"]

Rerun ==
    /\ pc = "done"
    /\ prev = NoPrev
    /\ \E how \in {"again", "swapped"} :
        /\ prev' = [kind |-> how, max_examples |-> max_examples, result |-> outcome]
        /\ IF how = "swapped"
           THEN /\ prod_file' = dev_file
                /\ dev_file' = prod_file
                /\ UNCHANGED max_examples
           ELSE /\ max_examples' \in 0..MaxExamplesBound
                /\ UNCHANGED <<prod_file, dev_file>>
    /\ pc' = "start"
    /\ i' = 0
    /\ prod_index' = EmptyMap
    /\ prod_order' = <<>>
    /\ dev_index' = EmptyMap
    /\ dev_order' = <<>>
    /\ counts' = [added |-> 0, removed |-> 0, meaningful |-> 0, excluded_only |-> 0]
    /\ collected' = [added |-> 0, removed |-> 0, changed |-> 0]
    /\ added_keys' = {}
    /\ all_changed_keys' = {}
    /\ meaningful_change_keys' = {}
    /\ excluded_only_keys' = {}
    /\ detailed_changes' = EmptyMap
    /\ example_ids' = EmptyMap
    /\ example_ids_added' = EmptyMap
    /\ example_ids_removed' = EmptyMap
    /\ needed_prod_rows' = EmptyMap
    /\ needed_dev_rows' = EmptyMap
    /\ todo' = {}
    /\ row_counts' = [prod |-> NotCounted, dev |-> NotCounted]
    /\ rows_streamed' = 0
    /\ outcome' = NoOutcome
    /\ UNCHANGED <<orchestrator, primary_keys, max_rows, options>>

Next ==
    \/ Start
    \/ Pass1Row
    \/ Pass1Done
    \/ Pass2Row
    \/ Pass2Done
    \/ ClassifyKey
    \/ ClassifyDone
    \/ RemovedKey
    \/ RemovedDone
    \/ Pass3ProdRow
    \/ Pass3ProdDone
    \/ Pass3DevRow
    \/ Pass3DevDone
    \/ CompareKey
    \/ CompareDone
    \/ Finish
    \/ Rerun

(***************************************************************************)
(* Inputs.                                                                 *)
(***************************************************************************)
Tables(R, n) == UNION {[1..k -> R] : k \in 0..n}

\* pairs of tables with at most n rows together
TablePairs(R, n) ==
    UNION {{<<p, d>> : p \in [1..k -> R], d \in Tables(R, n - k)} : k \in 0..n}

PlainRow(fields) == [f |-> fields, gap |-> 0, span |-> 1]

File(header, rows) == [header |-> header, rows |-> rows]

ExampleCaps == 0..MaxExamplesBound
RowCaps == {NoCap, MaxRowCap}

\* compute_diff is about to be called on one of the file pairs, with one of
\* the key lists
NoOptions == {}

(***************************************************************************)
(* The orchestrator's state while a single compute_diff is studied on its  *)
(* own: no run_folder_diff or run_url_mode is in progress.                 *)
(***************************************************************************)
NoCase == -1
NoSummary == [kind |-> "none"]
NoResult == [kind |-> "none"]

Semaphore(value) == [value |-> value, waiters |-> <<>>]

OrchestratorIdle ==
    /\ mode = "differ"
    /\ test_cases = EmptyMap
    /\ max_concurrent_fetches = 1
    /\ max_concurrent_diffs = 1
    /\ runtime = {}
    /\ ready = <<>>
    /\ main = "idle"
    /\ fetch_task = EmptyMap
    /\ diff_task = EmptyMap
    /\ fetch_semaphore = Semaphore(1)
    /\ diff_semaphore = Semaphore(1)
    /\ results = EmptyMap
    /\ pending_diffs = {}
    /\ diff_results = EmptyMap
    /\ diff_tasks = <<>>
    /\ gathered = 0
    /\ started = EmptyMap
    /\ summary = NoSummary

\* EfficientDiffer(...) is about to be built, with one of the option sets, and
\* compute_diff called on one of the file pairs
InitWithOptions(file_pairs, key_lists, row_caps, example_caps, option_sets) ==
    /\ \E pd \in file_pairs : prod_file = pd[1] /\ dev_file = pd[2]
    /\ primary_keys \in key_lists
    /\ max_examples \in example_caps
    /\ max_rows \in row_caps
    /\ options \in option_sets
    /\ prev = NoPrev
    /\ FreshRun
    /\ OrchestratorIdle

InitWith(file_pairs, key_lists, row_caps, example_caps) ==
    InitWithOptions(file_pairs, key_lists, row_caps, example_caps, {NoOptions})

(***************************************************************************)
(* Spec: two files with the header id,name,inventory, every row complete,  *)
(* two ids, at most MaxTotalRows data rows in the two files together.  The *)
(* engine only compares these values for equality, so the first data row   *)
(* (of prod, or of dev when prod is empty) is taken to be 1,a,5.           *)
(***************************************************************************)
CoreHeader == <<"id", "name", "inventory">>
CoreRows == {PlainRow(<<a, b, c>>) : a \in {"1", "2"}, b \in {"a", "b"}, c \in {"5", "7"}}

FirstRow(pd) ==
    IF Len(pd[1]) > 0 THEN pd[1][1]
    ELSE IF Len(pd[2]) > 0 THEN pd[2][1]
    ELSE PlainRow(<<"1", "a", "5">>)

CorePairs ==
    {<<File(CoreHeader, pd[1]), File(CoreHeader, pd[2])>> :
        pd \in {q \in TablePairs(CoreRows, MaxTotalRows) :
                    FirstRow(q) = PlainRow(<<"1", "a", "5">>)}}

Init == InitWith(CorePairs, {<<"id">>, <<"sku">>}, RowCaps, ExampleCaps)

Spec == Init /\ [][Next]_vars

(***************************************************************************)
(* SpecDup: the same header, one id, so that under the key id every row of *)
(* a file repeats the key of the others; the key is id or id,name; each    *)
(* file has at most MaxDupRows data rows and the first data row is again   *)
(* 1,a,5.  A file of MaxDupRows + 1 data rows is diffed against itself.    *)
(* The first call keeps up to MaxExamplesBound examples.                   *)
(***************************************************************************)
DupRows == {PlainRow(<<"1", b, c>>) : b \in {"a", "b"}, c \in {"5", "7"}}

SelfPairs ==
    {<<File(CoreHeader, t), File(CoreHeader, t)>> :
        t \in {u \in [1..MaxDupRows + 1 -> DupRows] : u[1] = PlainRow(<<"1", "a", "5">>)}}

DupPairs ==
    {<<File(CoreHeader, pd[1]), File(CoreHeader, pd[2])>> :
        pd \in {q \in Tables(DupRows, MaxDupRows) \X Tables(DupRows, MaxDupRows) :
                    FirstRow(q) = PlainRow(<<"1", "a", "5">>)}}
    \cup SelfPairs

InitDup == InitWith(DupPairs, {<<"id">>, <<"id", "name">>}, RowCaps, {MaxExamplesBound})

SpecDup == InitDup /\ [][Next]_vars

(***************************************************************************)
(* SpecValues: files of at most one data row under the header              *)
(* id,inventory,name,title, whose values may contain the '|' that _hash_row *)
(* joins with, may be the text None, and whose last field may be absent    *)
(* (a short row).                                                          *)
(***************************************************************************)
SingleRowTables(R) == {<<>>} \cup {<<r>> : r \in R}

ValueHeader == <<"id", "inventory", "name", "title">>
ValueRows ==
    {PlainRow(<<"1", a, b, c>>) :
        a \in {"5", "7"}, b \in {"x", "x|x"}, c \in {"x", "x|x", "None"}}
    \cup {PlainRow(<<"1", a, b>>) : a \in {"5", "7"}, b \in {"x", "x|x"}}

ValuePairs ==
    {<<File(ValueHeader, p), File(ValueHeader, d)>> :
        p \in SingleRowTables(ValueRows), d \in SingleRowTables(ValueRows)}

InitValues == InitWith(ValuePairs, {<<"id">>}, {NoCap}, ExampleCaps)

SpecValues == InitValues /\ [][Next]_vars

(***************************************************************************)
(* SpecSchema: files of at most one data row whose headers differ: with    *)
(* and without the key column, with and without a noise column, and one    *)
(* header all of whose columns match a noise pattern.                      *)
(***************************************************************************)
SchemaHeaders ==
    {<<"id", "name", "inventory">>, <<"id", "name">>, <<"name", "inventory">>,
     <<"sku", "name", "id">>, <<"inventory_id", "Availability">>}
SchemaKeyLists == {<<"id">>, <<"sku", "id">>, <<"inventory_id">>}
SchemaRows == {PlainRow(<<"a", b, c>>) : b \in {"a", "b"}, c \in {"a", "b"}}

SchemaPairs ==
    {<<File(hp, p), File(hd, d)>> :
        hp \in SchemaHeaders, hd \in SchemaHeaders,
        p \in SingleRowTables(SchemaRows), d \in SingleRowTables(SchemaRows)}

InitSchema == InitWith(SchemaPairs, SchemaKeyLists, {NoCap}, ExampleCaps)

SpecSchema == InitSchema /\ [][Next]_vars

(***************************************************************************)
(* SpecKeys: files of at most one data row under the header                *)
(* sku,locale,name, keyed by sku, by sku,locale or by locale,sku.  A key   *)
(* value may contain the '||' that _make_composite_key joins with, may be  *)
(* the text None, and locale and name may be absent (a short row).         *)
(***************************************************************************)
KeysHeader == <<"sku", "locale", "name">>
KeysKeyLists == {<<"sku">>, <<"sku", "locale">>, <<"locale", "sku">>}
KeysRows ==
    {PlainRow(<<a, b, c>>) :
        a \in {"A", "A||de"}, b \in {"de", "de||de", "None"}, c \in {"x", "y"}}
    \cup {PlainRow(<<a>>) : a \in {"A", "A||de"}}

KeysPairs ==
    {<<File(KeysHeader, p), File(KeysHeader, d)>> :
        p \in SingleRowTables(KeysRows), d \in SingleRowTables(KeysRows)}

InitKeys == InitWith(KeysPairs, KeysKeyLists, {NoCap}, ExampleCaps)

SpecKeys == InitKeys /\ [][Next]_vars

(***************************************************************************)
(* SpecOptions: files of at most one data row under the header id,name,    *)
(* whose names differ in letter case or in surrounding blanks only, diffed *)
(* by an EfficientDiffer built with no further keyword, with               *)
(* case_sensitive or with trim_whitespace.                                 *)
(***************************************************************************)
OptionsHeader == <<"id", "name">>
OptionsRows ==
    {PlainRow(<<a, b>>) : a \in {"1", "2"}, b \in {"Alice", "ALICE", "  Alice  "}}

OptionsPairs ==
    {<<File(OptionsHeader, p), File(OptionsHeader, d)>> :
        p \in SingleRowTables(OptionsRows), d \in SingleRowTables(OptionsRows)}

OptionSets ==
    {NoOptions} \cup {{<<k, v>>} : k \in {"case_sensitive", "trim_whitespace"},
                                  v \in BOOLEAN}

InitOptions == InitWithOptions(OptionsPairs, {<<"id">>}, {NoCap}, ExampleCaps, OptionSets)

SpecOptions == InitOptions /\ [][Next]_vars

(***************************************************************************)
(* SpecLines: files under the header id,name whose rows may follow a blank *)
(* line and may hold a quoted name with a line break, and whose header may *)
(* end in a quoted name with a trailing line break (id,"name<LF>"), which  *)
(* read_headers and the DictReader both normalise to name.  max_rows is    *)
(* None or any cap from 0.                                                 *)
(***************************************************************************)
\* the line breaks in a field
RECURSIVE LineBreaks(_)
LineBreaks(s) ==
    IF Len(s) = 0 THEN 0
    ELSE (IF Char(s, 1) = "\n" THEN 1 ELSE 0) + LineBreaks(SubSeq(s, 2, Len(s)))

\* a data row of an id and a name, after gap blank lines
LaidOutRow(id, name, gap) ==
    [f |-> <<id, name>>, gap |-> gap, span |-> 1 + LineBreaks(id) + LineBreaks(name)]

FileWithHeaderLines(header, hlines, rows) ==
    [header |-> header, hlines |-> hlines, rows |-> rows]

LinesHeader == <<"id", "name">>

LinesRows ==
    {LaidOutRow(id, name, gap) : id \in {"1", "2"}, name \in {"a", "a\nb"}, gap \in {0, 1}}

LinesPairs ==
    {<<FileWithHeaderLines(LinesHeader, hp, t[1]), FileWithHeaderLines(LinesHeader, hd, t[2])>> :
        t \in TablePairs(LinesRows, MaxTotalRows), hp \in {1, 2}, hd \in {1, 2}}

LinesRowCaps == {NoCap} \cup 0..MaxRowCap

InitLines == InitWith(LinesPairs, {<<"id">>}, LinesRowCaps, {MaxExamplesBound})

SpecLines == InitLines /\ [][Next]_vars

(***************************************************************************)
(* SpecDelims: files under the header id,name whose header line and data   *)
(* lines are each written with tabs or with commas.                        *)
(***************************************************************************)
DelimitedFile(header, hdelim, ddelim, rows) ==
    [header |-> header, hdelim |-> hdelim, ddelim |-> ddelim, rows |-> rows]

Delimiters == {Comma, Tab}

DelimsHeader == <<"id", "name">>

DelimsRows == {PlainRow(<<id, name>>) : id \in {"1", "2"}, name \in {"a", "b"}}

DelimsPairs ==
    {<<DelimitedFile(DelimsHeader, hp, dp, t[1]), DelimitedFile(DelimsHeader, hd, dd, t[2])>> :
        t \in TablePairs(DelimsRows, MaxTotalRows),
        hp \in Delimiters, dp \in Delimiters, hd \in Delimiters, dd \in Delimiters}

InitDelims == InitWith(DelimsPairs, {<<"id">>}, {NoCap}, {MaxExamplesBound})

SpecDelims == InitDelims /\ [][Next]_vars

(***************************************************************************)
(* SpecOrder: files of at most MaxDupRows data rows each under the header  *)
(* id,name, keyed by id, so that several keys can change at once while the *)
(* example cap lets fewer through.                                         *)
(***************************************************************************)
OrderHeader == <<"id", "name">>

OrderRows == {PlainRow(<<id, name>>) : id \in {"1", "2"}, name \in {"a", "b"}}

OrderPairs(n) ==
    {<<File(OrderHeader, p), File(OrderHeader, d)>> :
        p \in Tables(OrderRows, n), d \in Tables(OrderRows, n)}

InitOrder == InitWith(OrderPairs(MaxDupRows), {<<"id">>}, {NoCap}, {MaxExamplesBound})

SpecOrder == InitOrder /\ [][Next]_vars

(***************************************************************************)
(* SpecDisplay: files of at most MaxDupRows data rows each under the       *)
(* header sku,locale,name, keyed by sku,locale, whose key values may       *)
(* contain the '_' that _get_primary_key_display joins with; the example   *)
(* cap lets every row through.                                             *)
(***************************************************************************)
DisplayRows ==
    {PlainRow(<<a, b, c>>) : a \in {"A", "A_B"}, b \in {"C", "B_C"}, c \in {"x", "y"}}

DisplayPairs(n) ==
    {<<File(KeysHeader, p), File(KeysHeader, d)>> :
        p \in Tables(DisplayRows, n), d \in Tables(DisplayRows, n)}

InitDisplay == InitWith(DisplayPairs(MaxDupRows), {<<"sku", "locale">>}, {NoCap}, {MaxExamplesBound + 1})

SpecDisplay == InitDisplay /\ [][Next]_vars

(***************************************************************************)
(* The orchestrator: run_folder_diff and run_url_mode on one asyncio event *)
(* loop.  Coroutines run one at a time, each from one await that suspends  *)
(* to the next; the loop runs the callbacks of its ready queue in FIFO     *)
(* order.  Fetches and worker threads finish at any time and in any order. *)
(* A compute_diff call is one unit of work in a worker thread; what it     *)
(* does with its two files is given per test case.                         *)
(***************************************************************************)
MaxCases == 3
MaxConcurrency == 2

Cases == DOMAIN test_cases

\* what happens to a test case: a fetch does not answer 200 (in folder mode:
\* one of the two files is missing), compute_diff raises, or it returns
\* without or with differences
JobKinds == {"unavailable", "raises", "unchanged", "changed"}

Callback(run, c) == [run |-> run, case |-> c]

\* one callback per case of the sequence, in its order
CallbacksFor(run, cs) == [k \in DOMAIN cs |-> Callback(run, cs[k])]

\* enumerate(param_list) / groups.items()
CasesInOrder == [k \in 1..Cardinality(Cases) |-> k - 1]

Running(run) == main # "done" /\ ready # <<>> /\ Head(ready).run = run

(***************************************************************************)
(* asyncio.Semaphore: a counter and a FIFO of waiters; a waiter stays in   *)
(* the FIFO from release's wake-up until its coroutine runs again.         *)
(***************************************************************************)
never_locked(sem) == FALSE

locked(sem) == sem.value = 0 \/ sem.waiters # <<>>

FirstWaiting(sem) ==
    IF \E k \in DOMAIN sem.waiters : ~sem.waiters[k].woken
    THEN CHOOSE k \in DOMAIN sem.waiters :
            /\ ~sem.waiters[k].woken
            /\ \A j \in 1..(k - 1) : sem.waiters[j].woken
    ELSE 0

_wake_up_next(sem) ==
    LET k == FirstWaiting(sem)
    IN  IF k = 0 THEN sem
        ELSE [sem EXCEPT !.value = @ - 1, !.waiters[k].woken = TRUE]

release(sem) == _wake_up_next([sem EXCEPT !.value = @ + 1])

\* acquire up to its await: taken at once when not locked, else queued
acquire(sem, c) ==
    IF locked(sem)
    THEN [sem EXCEPT !.waiters = Append(@, [case |-> c, woken |-> FALSE])]
    ELSE [sem EXCEPT !.value = @ - 1]

\* acquire after its await
acquire_resumed(sem, c) ==
    LET removed == [sem EXCEPT !.waiters = SelectSeq(@, LAMBDA w : w.case # c)]
    IN  IF removed.value > 0 THEN _wake_up_next(removed) ELSE removed

WokenCases(sem) == {sem.waiters[k].case : k \in {j \in DOMAIN sem.waiters : sem.waiters[j].woken}}

\* the callbacks a semaphore operation put on the ready queue
WakeUps(before, after, run) ==
    LET new == WokenCases(after) \ WokenCases(before)
    IN  IF new = {} THEN <<>> ELSE <<Callback(run, CHOOSE c \in new : TRUE)>>

(***************************************************************************)
(* The per-case summaries.                                                 *)
(***************************************************************************)
\* test_summary with "error" and non_200, as the non-200 / missing-file
\* branch builds it
UnavailableSummary == [kind |-> "summary", error |-> TRUE, non_200 |-> TRUE, changed |-> FALSE]

\* test_summary as the except branch around compute_diff leaves it
ExceptSummary == [kind |-> "summary", error |-> TRUE, non_200 |-> TRUE, changed |-> FALSE]

\* test_summary after test_summary.update(diff_stats)
DiffSummary(job) == [kind |-> "summary", error |-> FALSE, non_200 |-> FALSE, changed |-> job = "changed"]

(***************************************************************************)
(* process_test_case.                                                      *)
(***************************************************************************)
\* even test cases fetch prod first, odd ones dev first
FetchOrder(idx) == IF idx % 2 = 0 THEN <<"prod", "dev">> ELSE <<"dev", "prod">>

\* whether maybe_start_diff creates a diff task
maybe_start_diff(test_case, recorded) ==
    /\ ~(test_case \in pending_diffs \/ test_case \in DOMAIN diff_results)
    /\ test_case \in DOMAIN recorded
    /\ "prod" \in recorded[test_case]
    /\ "dev" \in recorded[test_case]

NoFetchesRemain(idx) == FALSE

\* whether process_test_case still has an environment to fetch
FetchesRemain(idx) == Cardinality(fetch_task[idx].fetched) < Len(FetchOrder(idx))

OrchestratorInputs == <<mode, test_cases, max_concurrent_fetches, max_concurrent_diffs>>

\* first step: async with fetch_semaphore
ProcessTestCaseStarts ==
    /\ Running("process_test_case")
    /\ LET idx == Head(ready).case
           sem == acquire(fetch_semaphore, idx)
       IN  /\ fetch_task[idx].pc = "start"
           /\ fetch_semaphore' = sem
           /\ fetch_task' = [fetch_task EXCEPT ![idx].pc =
                    IF locked(fetch_semaphore) THEN "acquire" ELSE "fetching"]
           /\ ready' = Tail(ready)
    /\ UNCHANGED <<differ, OrchestratorInputs, runtime, main, diff_task, diff_semaphore,
                   results, pending_diffs, diff_results, diff_tasks, gathered,
                   started, summary>>

\* woken by a release of fetch_semaphore: the first fetch begins
ProcessTestCaseAcquires ==
    /\ Running("process_test_case")
    /\ LET idx == Head(ready).case
           sem == acquire_resumed(fetch_semaphore, idx)
       IN  /\ fetch_task[idx].pc = "acquire"
           /\ fetch_semaphore' = sem
           /\ fetch_task' = [fetch_task EXCEPT ![idx].pc = "fetching"]
           /\ ready' = Tail(ready) \o WakeUps(fetch_semaphore, sem, "process_test_case")
    /\ UNCHANGED <<differ, OrchestratorInputs, runtime, main, diff_task, diff_semaphore,
                   results, pending_diffs, diff_results, diff_tasks, gathered,
                   started, summary>>

\* the response of the fetch in turn arrives, at any time: the loop queues
\* the callback that resolves the future fetch_and_save is waiting on
FetchCompletes ==
    /\ main # "done"
    /\ \E idx \in Cases :
        /\ fetch_task[idx].pc = "fetching"
        /\ fetch_task' = [fetch_task EXCEPT ![idx].pc = "arrived"]
        /\ ready' = Append(ready, Callback("resolve_fetch", idx))
    /\ UNCHANGED <<differ, OrchestratorInputs, runtime, main, diff_task, fetch_semaphore,
                   diff_semaphore, results, pending_diffs, diff_results,
                   diff_tasks, gathered, started, summary>>

\* the future resolves, which queues the next step of process_test_case;
\* fetch_and_save of the environment in turn will return, with any status
FetchResolves ==
    /\ Running("resolve_fetch")
    /\ LET idx == Head(ready).case
       IN  /\ fetch_task' = [fetch_task EXCEPT ![idx] =
                [pc |-> "fetched",
                 fetched |-> @.fetched \cup {FetchOrder(idx)[Cardinality(@.fetched) + 1]}]]
           /\ ready' = Append(Tail(ready), Callback("process_test_case", idx))
    /\ UNCHANGED <<differ, OrchestratorInputs, runtime, main, diff_task, fetch_semaphore,
                   diff_semaphore, results, pending_diffs, diff_results,
                   diff_tasks, gathered, started, summary>>

\* after the first fetch: the second fetch begins
ProcessTestCaseFetchesNext ==
    /\ Running("process_test_case")
    /\ LET idx == Head(ready).case
       IN  /\ fetch_task[idx].pc = "fetched"
           /\ FetchesRemain(idx)
           /\ fetch_task' = [fetch_task EXCEPT ![idx].pc = "fetching"]
           /\ ready' = Tail(ready)
    /\ UNCHANGED <<differ, OrchestratorInputs, runtime, main, diff_task, fetch_semaphore,
                   diff_semaphore, results, pending_diffs, diff_results,
                   diff_tasks, gathered, started, summary>>

\* after the last fetch: the semaphore is released, results[idx] is built,
\* maybe_start_diff(idx) runs and the coroutine returns
ProcessTestCaseRecords ==
    /\ Running("process_test_case")
    /\ LET idx == Head(ready).case
           sem == release(fetch_semaphore)
           recorded == [c \in DOMAIN results \cup {idx} |->
                            IF c = idx THEN Range(FetchOrder(idx)) ELSE results[c]]
           starts == maybe_start_diff(idx, recorded)
       IN  /\ fetch_task[idx].pc = "fetched"
           /\ ~FetchesRemain(idx)
           /\ fetch_semaphore' = sem
           /\ fetch_task' = [fetch_task EXCEPT ![idx].pc = "done"]
           /\ results' = IF starts
                         THEN [c \in DOMAIN recorded \ {idx} |-> recorded[c]]
                         ELSE recorded
           /\ pending_diffs' = IF starts THEN pending_diffs \cup {idx} ELSE pending_diffs
           /\ diff_task' = IF starts
                           THEN [diff_task EXCEPT ![idx] =
                                    [pc |-> "start", result |-> NoResult,
                                     callbacks |-> <<"done_callback">>]]
                           ELSE diff_task
           /\ started' = IF starts THEN [started EXCEPT ![idx] = @ + 1] ELSE started
           /\ diff_tasks' = IF starts THEN Append(diff_tasks, idx) ELSE diff_tasks
           /\ ready' = Tail(ready)
                        \o WakeUps(fetch_semaphore, sem, "process_test_case")
                        \o (IF starts THEN <<Callback("process_diff", idx)>> ELSE <<>>)
                        \o <<Callback("gathered", idx)>>
    /\ UNCHANGED <<differ, OrchestratorInputs, runtime, main, diff_semaphore, diff_results,
                   gathered, summary>>

(***************************************************************************)
(* process_diff (URL mode) and bounded_diff / process_folder_diff (folder  *)
(* mode): the same steps around the same semaphore.                        *)
(***************************************************************************)
DiffsInProgress == {c \in Cases : diff_task[c].pc = "thread"}

\* the coroutine returns test_summary: the semaphore is released and the
\* task's done-callbacks are queued in the order they were added
ReturnDiff(c, test_summary, sem, queue) ==
    LET released == release(sem)
    IN  /\ diff_semaphore' = released
        /\ diff_task' = [diff_task EXCEPT ![c] =
                [pc |-> "done", result |-> test_summary, callbacks |-> <<>>]]
        /\ ready' = queue \o WakeUps(sem, released, "process_diff")
                          \o [k \in DOMAIN diff_task[c].callbacks |->
                                Callback(diff_task[c].callbacks[k], c)]

\* inside the semaphore: the error summary at once, or compute_diff in a
\* worker thread
RunDiff(c, sem, queue) ==
    IF test_cases[c] = "unavailable"
    THEN ReturnDiff(c, UnavailableSummary, sem, queue)
    ELSE /\ diff_semaphore' = sem
         /\ diff_task' = [diff_task EXCEPT ![c].pc = "thread"]
         /\ ready' = queue

\* first step: async with diff_semaphore
ProcessDiffStarts ==
    /\ Running("process_diff")
    /\ LET c == Head(ready).case
       IN  /\ diff_task[c].pc = "start"
           /\ IF locked(diff_semaphore)
              THEN /\ diff_semaphore' = acquire(diff_semaphore, c)
                   /\ diff_task' = [diff_task EXCEPT ![c].pc = "acquire"]
                   /\ ready' = Tail(ready)
              ELSE RunDiff(c, acquire(diff_semaphore, c), Tail(ready))
    /\ UNCHANGED <<differ, OrchestratorInputs, runtime, main, fetch_task, fetch_semaphore,
                   results, pending_diffs, diff_results, diff_tasks, gathered,
                   started, summary>>

\* woken by a release of diff_semaphore
ProcessDiffAcquires ==
    /\ Running("process_diff")
    /\ LET c == Head(ready).case
           sem == acquire_resumed(diff_semaphore, c)
       IN  /\ diff_task[c].pc = "acquire"
           /\ RunDiff(c, sem, Tail(ready) \o WakeUps(diff_semaphore, sem, "process_diff"))
    /\ UNCHANGED <<differ, OrchestratorInputs, runtime, main, fetch_task, fetch_semaphore,
                   results, pending_diffs, diff_results, diff_tasks, gathered,
                   started, summary>>

\* the worker thread's compute_diff returns or raises, at any time: the
\* thread queues (call_soon_threadsafe) the callback that resolves the
\* future asyncio.to_thread is waiting on
ComputeDiffCompletes ==
    /\ main # "done"
    /\ \E c \in Cases :
        /\ diff_task[c].pc = "thread"
        /\ diff_task' = [diff_task EXCEPT ![c].pc = "returned"]
        /\ ready' = Append(ready, Callback("resolve_diff", c))
    /\ UNCHANGED <<differ, OrchestratorInputs, runtime, main, fetch_task, fetch_semaphore,
                   diff_semaphore, results, pending_diffs, diff_results,
                   diff_tasks, gathered, started, summary>>

\* after await asyncio.to_thread(differ.compute_diff, ...): the except
\* branch, or on to the in-stock percentages
ProcessDiffComputed ==
    /\ Running("process_diff")
    /\ LET c == Head(ready).case
       IN  /\ diff_task[c].pc = "computed"
           /\ IF test_cases[c] = "raises"
              THEN ReturnDiff(c, ExceptSummary, diff_semaphore, Tail(ready))
              ELSE /\ diff_task' = [diff_task EXCEPT ![c].pc = "in_stock"]
                   /\ ready' = Tail(ready)
                   /\ UNCHANGED diff_semaphore
    /\ UNCHANGED <<differ, OrchestratorInputs, runtime, main, fetch_task, fetch_semaphore,
                   results, pending_diffs, diff_results, diff_tasks, gathered,
                   started, summary>>

\* the second of the two calc_in_stock tasks finishes, at any time: the
\* loop queues the callback that resolves their gather
InStockCompletes ==
    /\ main # "done"
    /\ \E c \in Cases :
        /\ diff_task[c].pc = "in_stock"
        /\ diff_task' = [diff_task EXCEPT ![c].pc = "counted"]
        /\ ready' = Append(ready, Callback("resolve_diff", c))
    /\ UNCHANGED <<differ, OrchestratorInputs, runtime, main, fetch_task, fetch_semaphore,
                   diff_semaphore, results, pending_diffs, diff_results,
                   diff_tasks, gathered, started, summary>>

\* the future process_diff is waiting on resolves, which queues its next step
DiffResolves ==
    /\ Running("resolve_diff")
    /\ LET c == Head(ready).case
       IN  /\ diff_task' = [diff_task EXCEPT ![c].pc =
                    IF @ = "returned" THEN "computed" ELSE "stocked"]
           /\ ready' = Append(Tail(ready), Callback("process_diff", c))
    /\ UNCHANGED <<differ, OrchestratorInputs, runtime, main, fetch_task, fetch_semaphore,
                   diff_semaphore, results, pending_diffs, diff_results,
                   diff_tasks, gathered, started, summary>>

\* after the in-stock gather: return test_summary
ProcessDiffReturns ==
    /\ Running("process_diff")
    /\ LET c == Head(ready).case
       IN  /\ diff_task[c].pc = "stocked"
           /\ ReturnDiff(c, DiffSummary(test_cases[c]), diff_semaphore, Tail(ready))
    /\ UNCHANGED <<differ, OrchestratorInputs, runtime, main, fetch_task, fetch_semaphore,
                   results, pending_diffs, diff_results, diff_tasks, gathered,
                   started, summary>>

\* the diff task's done-callback: asyncio.create_task(on_diff_complete(t, test_case))
DiffDoneCallback ==
    /\ Running("done_callback")
    /\ ready' = Append(Tail(ready), Callback("on_diff_complete", Head(ready).case))
    /\ UNCHANGED <<differ, OrchestratorInputs, runtime, main, fetch_task, diff_task,
                   fetch_semaphore, diff_semaphore, results, pending_diffs,
                   diff_results, diff_tasks, gathered, started, summary>>

\* on_diff_complete: it has no await and runs in one step
on_diff_complete ==
    /\ Running("on_diff_complete")
    /\ LET test_case == Head(ready).case
       IN  /\ diff_results' = [c \in DOMAIN diff_results \cup {test_case} |->
                                IF c = test_case THEN diff_task[test_case].result
                                ELSE diff_results[c]]
           /\ pending_diffs' = pending_diffs \ {test_case}
    /\ ready' = Tail(ready)
    /\ UNCHANGED <<differ, OrchestratorInputs, runtime, main, fetch_task, diff_task,
                   fetch_semaphore, diff_semaphore, results, diff_tasks,
                   gathered, started, summary>>

(***************************************************************************)
(* run_folder_diff / run_url_mode themselves.                              *)
(***************************************************************************)
\* Where interpreters and HTTP libraries differ: whether closing the client
\* session suspends run_url_mode, and whether a gather whose children have
\* all finished already completes without suspending its caller.
RuntimeBehaviours == {"close_suspends", "gather_completes_eagerly"}

\* the children of the gather that main is waiting on
Children ==
    IF main = "gather_fetches" THEN Cardinality(Cases)
    ELSE IF mode = "url" THEN Len(diff_tasks) ELSE Cardinality(Cases)

\* up to the first await: the tasks of the first gather are created
MainStarts ==
    /\ Running("main")
    /\ main = "start"
    /\ IF mode = "url"
       THEN /\ main' = "gather_fetches"
            /\ fetch_task' = [c \in Cases |-> [pc |-> "start", fetched |-> {}]]
            /\ ready' = Tail(ready) \o CallbacksFor("process_test_case", CasesInOrder)
            /\ UNCHANGED diff_task
       ELSE /\ main' = "gather_diffs"
            /\ diff_task' = [c \in Cases |->
                    [pc |-> "start", result |-> NoResult, callbacks |-> <<"gathered">>]]
            /\ ready' = Tail(ready) \o CallbacksFor("process_diff", CasesInOrder)
            /\ UNCHANGED fetch_task
    /\ UNCHANGED <<differ, OrchestratorInputs, runtime, fetch_semaphore, diff_semaphore,
                   results, pending_diffs, diff_results, diff_tasks, gathered,
                   started, summary>>

\* gather's _done_callback for one child; the last one wakes main
GatherCallback ==
    /\ Running("gathered")
    /\ gathered' = gathered + 1
    /\ ready' = IF gathered + 1 = Children
                THEN Append(Tail(ready), Callback("main", NoCase))
                ELSE Tail(ready)
    /\ UNCHANGED <<differ, OrchestratorInputs, runtime, main, fetch_task, diff_task,
                   fetch_semaphore, diff_semaphore, results, pending_diffs,
                   diff_results, diff_tasks, started, summary>>

\* the three summary files (folder mode writes the overall one only)
Summaries(overall) ==
    LET errors == {c \in DOMAIN overall : overall[c].non_200 \/ overall[c].error}
        updates == {c \in DOMAIN overall \ errors : overall[c].changed}
    IN  [kind |-> "written", overall |-> overall,
         errors |-> IF mode = "url" THEN errors ELSE {},
         updates |-> IF mode = "url" THEN updates ELSE {}]

\* the summary is built from diff_results (URL mode) or from the gathered
\* results (folder mode), and the function returns
WriteSummaries(queue) ==
    /\ main' = "done"
    /\ summary' = Summaries(IF mode = "url" THEN diff_results
                            ELSE [c \in Cases |-> diff_task[c].result])
    /\ ready' = queue
    /\ UNCHANGED <<diff_task, gathered>>

\* "Wait for remaining diffs": asyncio.gather(*diff_tasks), then the summaries
WaitForDiffs(queue, observed) ==
    LET finished == SelectSeq(diff_tasks, LAMBDA c : diff_task[c].pc = "done")
        eager == "gather_completes_eagerly" \in observed
    IN  IF diff_tasks = <<>> \/ (eager /\ Len(finished) = Len(diff_tasks))
        THEN WriteSummaries(queue)
        ELSE /\ main' = "gather_diffs"
             /\ gathered' = IF eager THEN Len(finished) ELSE 0
             /\ diff_task' = [c \in Cases |->
                    IF c \in Range(diff_tasks) /\ diff_task[c].pc # "done"
                    THEN [diff_task[c] EXCEPT !.callbacks = Append(@, "gathered")]
                    ELSE diff_task[c]]
             /\ ready' = IF eager THEN queue
                         ELSE queue \o CallbacksFor("gathered", finished)
             /\ UNCHANGED summary

\* the gather of the process_test_case tasks has returned: the session is
\* closed, which may or may not suspend
MainAfterFetches ==
    /\ Running("main")
    /\ main = "gather_fetches"
    /\ \E observed \in SUBSET RuntimeBehaviours :
        /\ runtime' = observed
        /\ IF "close_suspends" \in observed
           THEN /\ observed = {"close_suspends"}
                /\ main' = "closing"
                /\ ready' = Tail(ready)
                /\ UNCHANGED <<diff_task, gathered, summary>>
           ELSE WaitForDiffs(Tail(ready), observed)
    /\ UNCHANGED <<differ, OrchestratorInputs, fetch_task, fetch_semaphore,
                   diff_semaphore, results, pending_diffs, diff_results,
                   diff_tasks, started>>

\* the connector has closed
SessionCloses ==
    /\ main = "closing"
    /\ main' = "closed"
    /\ ready' = Append(ready, Callback("main", NoCase))
    /\ UNCHANGED <<differ, OrchestratorInputs, runtime, fetch_task, diff_task,
                   fetch_semaphore, diff_semaphore, results, pending_diffs,
                   diff_results, diff_tasks, gathered, started, summary>>

MainAfterClose ==
    /\ Running("main")
    /\ main = "closed"
    /\ \E observed \in SUBSET RuntimeBehaviours :
        /\ runtime \subseteq observed
        /\ runtime' = observed
        /\ WaitForDiffs(Tail(ready), observed)
    /\ UNCHANGED <<differ, OrchestratorInputs, fetch_task, fetch_semaphore,
                   diff_semaphore, results, pending_diffs, diff_results,
                   diff_tasks, started>>

\* the gather of the diff tasks has returned
MainAfterDiffs ==
    /\ Running("main")
    /\ main = "gather_diffs"
    /\ WriteSummaries(Tail(ready))
    /\ UNCHANGED <<differ, OrchestratorInputs, runtime, fetch_task, fetch_semaphore,
                   diff_semaphore, results, pending_diffs, diff_results,
                   diff_tasks, started>>

NextOrchestrator ==
    \/ MainStarts
    \/ ProcessTestCaseStarts
    \/ ProcessTestCaseAcquires
    \/ FetchCompletes
    \/ FetchResolves
    \/ ProcessTestCaseFetchesNext
    \/ ProcessTestCaseRecords
    \/ ProcessDiffStarts
    \/ ProcessDiffAcquires
    \/ ComputeDiffCompletes
    \/ ProcessDiffComputed
    \/ InStockCompletes
    \/ DiffResolves
    \/ ProcessDiffReturns
    \/ DiffDoneCallback
    \/ on_diff_complete
    \/ GatherCallback
    \/ MainAfterFetches
    \/ SessionCloses
    \/ MainAfterClose
    \/ MainAfterDiffs

\* no compute_diff of the differ model is running
DifferIdle ==
    /\ prod_file = File(<<>>, <<>>)
    /\ dev_file = File(<<>>, <<>>)
    /\ primary_keys = <<>>
    /\ max_examples = 0
    /\ max_rows = NoCap
    /\ options = NoOptions
    /\ prev = NoPrev
    /\ FreshRun

\* run_folder_diff or run_url_mode is about to run, on any test cases, with
\* any limits, under any interpreter and HTTP library
InitOrchestrator ==
    /\ DifferIdle
    /\ mode \in {"folder", "url"}
    /\ \E n \in 1..MaxCases : test_cases \in [0..(n - 1) -> JobKinds]
    /\ max_concurrent_diffs \in 1..MaxConcurrency
    /\ max_concurrent_fetches \in IF mode = "url" THEN 1..MaxConcurrency ELSE {1}
    /\ runtime = {}
    /\ ready = <<Callback("main", NoCase)>>
    /\ main = "start"
    /\ fetch_task = [c \in Cases |-> [pc |-> "none", fetched |-> {}]]
    /\ diff_task = [c \in Cases |-> [pc |-> "none", result |-> NoResult, callbacks |-> <<>>]]
    /\ fetch_semaphore = Semaphore(max_concurrent_fetches)
    /\ diff_semaphore = Semaphore(max_concurrent_diffs)
    /\ results = EmptyMap
    /\ pending_diffs = {}
    /\ diff_results = EmptyMap
    /\ diff_tasks = <<>>
    /\ gathered = 0
    /\ started = [c \in Cases |-> 0]
    /\ summary = NoSummary

SpecOrchestrator == InitOrchestrator /\ [][NextOrchestrator]_vars

(***************************************************************************)
(* Claims.                                                                 *)
(***************************************************************************)
Returned == pc = "done" /\ outcome.kind = "result"

\* the composite keys of the rows a scan of the file yields
KeysOf(file) ==
    {_make_composite_key(iterate_rows_with_line_numbers(file, n).row) :
        n \in 1..RowsYielded(file, max_rows)}

\* the rows of a scan that carry the key
Occurrences(file, key) ==
    {n \in 1..RowsYielded(file, max_rows) :
        _make_composite_key(iterate_rows_with_line_numbers(file, n).row) = key}

HasRepeatedKey(file) == \E key \in KeysOf(file) : Cardinality(Occurrences(file, key)) > 1

\* C1: diffing a file against itself returns rows_added = 0, rows_removed = 0,
\* rows_updated = 0 and rows_updated_excluded_only = 0, also when the file
\* repeats keys and when a row cap is set.
C1_SelfDiffIsEmpty ==
    (Returned /\ prod_file = dev_file) =>
        /\ outcome.rows_added = 0
        /\ outcome.rows_removed = 0
        /\ outcome.rows_updated = 0
        /\ outcome.rows_updated_excluded_only = 0

\* a self-diff has returned for a file that a row cap cuts short and whose
\* scan, under that cap, repeats a key with different row contents
C1_Witness ==
    /\ Returned
    /\ prod_file = dev_file
    /\ max_rows # NoCap
    /\ max_rows < Len(prod_file.rows)
    /\ HasRepeatedKey(prod_file)
    /\ \E m, n \in 1..RowsYielded(prod_file, max_rows) :
          prod_file.rows[m] # prod_file.rows[n]

\* the preceding call was on the same two files in the other order
AfterSwap == Returned /\ prev.kind = "swapped" /\ prev.result.kind = "result"

\* C2: with the same key columns, rows_added of compute_diff(A, B) equals
\* rows_removed of compute_diff(B, A) and rows_removed of compute_diff(A, B)
\* equals rows_added of compute_diff(B, A), also when a table repeats keys.
C2_AddedRemovedSymmetry ==
    AfterSwap =>
        /\ outcome.rows_added = prev.result.rows_removed
        /\ outcome.rows_removed = prev.result.rows_added

\* both orders have returned, with a key added, a key removed and a table
\* that repeats a key
C2_Witness ==
    /\ AfterSwap
    /\ outcome.rows_added > 0
    /\ outcome.rows_removed > 0
    /\ HasRepeatedKey(prod_file) \/ HasRepeatedKey(dev_file)

\* the last row of a scan that carries the key
LastOccurrence(file, key) ==
    LET occurrences == Occurrences(file, key)
    IN  CHOOSE n \in occurrences : \A m \in occurrences : m <= n

LastRowOf(file, key) == iterate_rows_with_line_numbers(file, LastOccurrence(file, key)).row

KeysInBoth == KeysOf(prod_file) \cap KeysOf(dev_file)

\* the common columns in which the last rows of the key differ
DifferingColumns(key) ==
    {c \in common_keys : LastRowOf(prod_file, key)[c] # LastRowOf(dev_file, key)[c]}

\* keys whose rows differ, and only in noise columns
NoiseOnlyChanged ==
    {key \in KeysInBoth :
        /\ DifferingColumns(key) # {}
        /\ \A c \in DifferingColumns(key) : _is_excluded_column(c)}

\* keys whose rows differ in at least one non-noise column
MeaningfullyChanged ==
    {key \in KeysInBoth : \E c \in DifferingColumns(key) : ~_is_excluded_column(c)}

\* C3: a key in both tables whose rows differ only in noise columns is counted
\* in rows_updated_excluded_only and not in rows_updated; if every changed row
\* is noise-only, rows_updated = 0 and rows_updated_excluded_only is their
\* number; for every header set.
C3_NoiseOnlyIsExcludedOnly ==
    Returned =>
        /\ NoiseOnlyChanged \subseteq excluded_only_keys
        /\ NoiseOnlyChanged \cap meaningful_change_keys = {}
        /\ MeaningfullyChanged = {} =>
              /\ outcome.rows_updated = 0
              /\ outcome.rows_updated_excluded_only = Cardinality(NoiseOnlyChanged)

\* C4: a key in both tables whose rows differ in a non-noise column is counted
\* in rows_updated and in nothing else, and two rows whose significant digests
\* match while their full digests differ differ only in noise columns; for all
\* field values.
C4_MeaningfulIsUpdated ==
    Returned =>
        /\ MeaningfullyChanged \subseteq meaningful_change_keys
        /\ MeaningfullyChanged \cap excluded_only_keys = {}
        /\ MeaningfullyChanged \cap added_keys = {}
        /\ \A key \in KeysInBoth :
              (/\ comp_hash(LastRowOf(prod_file, key)) = comp_hash(LastRowOf(dev_file, key))
               /\ full_hash(LastRowOf(prod_file, key)) # full_hash(LastRowOf(dev_file, key)))
              => key \in NoiseOnlyChanged

\* the row kept for a key by a scan that lets the last occurrence win
LastKept(file, key) == [k \in common_keys |-> Get(LastRowOf(file, key), k, "")]

\* both indexes are complete and Pass 2 classifies the keys
Indexed == pc = "classify"

\* C5: the digests Pass 2 classifies a key with and the row Pass 3 retrieves
\* for it both come from the last occurrence of the key in a scan of the table
\* under the row cap, on the prod and on the dev side.
C5_DigestAndRowFromLastOccurrence ==
    /\ Indexed =>
          /\ \A key \in DOMAIN prod_index :
                LET last == LastRowOf(prod_file, key)
                IN  /\ prod_index[key].full = full_hash(last)
                    /\ prod_index[key].comp = comp_hash(last)
          /\ \A key \in DOMAIN dev_index :
                LET last == LastRowOf(dev_file, key)
                IN  /\ dev_index[key].full = full_hash(last)
                    /\ dev_index[key].comp = comp_hash(last)
    /\ pc = "compare" =>
          \A key \in all_changed_keys :
              /\ needed_prod_rows[key] = LastKept(prod_file, key)
              /\ needed_dev_rows[key].row = LastKept(dev_file, key)

\* Pass 3 has retrieved the rows of a changed key that both tables repeat,
\* each with a first occurrence unlike its last
C5_Witness ==
    /\ pc = "compare"
    /\ \E key \in all_changed_keys :
          /\ Cardinality(Occurrences(prod_file, key)) > 1
          /\ Cardinality(Occurrences(dev_file, key)) > 1
          /\ \E n \in Occurrences(prod_file, key) :
                ProdRow(n).row # LastRowOf(prod_file, key)
          /\ \E n \in Occurrences(dev_file, key) :
                DevRow(n).row # LastRowOf(dev_file, key)
          /\ needed_prod_rows[key] = LastKept(prod_file, key)
          /\ needed_dev_rows[key].row = LastKept(dev_file, key)

\* the physical line on which the n-th data row of the file starts
StartLine(file, n) == LineEnd(file, n - 1) + file.rows[n].gap + 1

LastLineOf(file, key) == StartLine(file, LastOccurrence(file, key))

\* C6: every line number the result reports for a key is the starting line of
\* the key's last occurrence in that table: prod_line_num and dev_line_num in
\* example_ids, dev_line_num in example_ids_added, prod_line_num in
\* example_ids_removed.
C6_LinesAreLastOccurrence ==
    Returned =>
        /\ \A key \in KeysOf(dev_file) \ KeysOf(prod_file) :
              LET display_key == _get_primary_key_display(LastRowOf(dev_file, key))
              IN  display_key \in DOMAIN outcome.example_ids_added =>
                     outcome.example_ids_added[display_key].dev_line_num
                        = LastLineOf(dev_file, key)
        /\ \A key \in KeysOf(prod_file) \ KeysOf(dev_file) :
              LET display_key == _get_primary_key_display(LastRowOf(prod_file, key))
              IN  display_key \in DOMAIN outcome.example_ids_removed =>
                     outcome.example_ids_removed[display_key].prod_line_num
                        = LastLineOf(prod_file, key)
        /\ \A key \in KeysInBoth :
              LET display_key == _get_primary_key_display(LastRowOf(dev_file, key))
              IN  display_key \in DOMAIN outcome.example_ids =>
                     /\ outcome.example_ids[display_key].prod_line_num
                           = LastLineOf(prod_file, key)
                     /\ outcome.example_ids[display_key].dev_line_num
                           = LastLineOf(dev_file, key)

Size(map) == Cardinality(DOMAIN map)

\* C7: at every point of a diff and in the returned result, example_ids,
\* example_ids_added and example_ids_removed each have at most max_examples
\* entries.
C7_ExamplesWithinCap ==
    /\ Size(example_ids) <= max_examples
    /\ Size(example_ids_added) <= max_examples
    /\ Size(example_ids_removed) <= max_examples
    /\ outcome.kind = "result" =>
          /\ Size(outcome.example_ids) <= max_examples
          /\ Size(outcome.example_ids_added) <= max_examples
          /\ Size(outcome.example_ids_removed) <= max_examples

\* a diff with more added keys than the cap has returned as many added
\* examples as the cap allows
C7_Witness ==
    /\ Returned
    /\ max_examples > 0
    /\ outcome.rows_added > max_examples
    /\ Size(outcome.example_ids_added) = max_examples

\* the preceding call was on the same two files in the same order
AfterAgain == Returned /\ prev.kind = "again" /\ prev.result.kind = "result"

\* C8: two diffs of the same inputs with different example caps return the
\* same rows_added, rows_removed, rows_updated, rows_updated_excluded_only and
\* detailed_key_update_counts.
C8_CountsIgnoreExampleCap ==
    AfterAgain =>
        /\ outcome.rows_added = prev.result.rows_added
        /\ outcome.rows_removed = prev.result.rows_removed
        /\ outcome.rows_updated = prev.result.rows_updated
        /\ outcome.rows_updated_excluded_only = prev.result.rows_updated_excluded_only
        /\ outcome.detailed_key_update_counts = prev.result.detailed_key_update_counts

\* the same files were diffed with cap 0 and then with another cap, with an
\* added key and a tallied column beyond what the first cap let through
C8_Witness ==
    /\ AfterAgain
    /\ prev.max_examples = 0
    /\ max_examples > 0
    /\ outcome.rows_added > 0
    /\ outcome.rows_updated > 0
    /\ outcome.detailed_key_update_counts # EmptyMap
    /\ prev.result.example_ids = EmptyMap
    /\ outcome.example_ids # EmptyMap

\* the configured key columns the header of the file lacks
MissingFrom(file) == SelectSeq(primary_keys, LAMBDA k : k \notin Range(file.header))

\* C9: when a key column is absent from the prod or the dev header,
\* compute_diff fails before any streaming pass (no index built, no row
\* iterated or counted), the error names the missing key columns and the
\* available columns of the side that lacks them, and no result is returned.
C9_MissingKeyFailsFirst ==
    (MissingFrom(prod_file) # <<>> \/ MissingFrom(dev_file) # <<>>) =>
        /\ pc \in {"start", "error"}
        /\ rows_streamed = 0
        /\ prod_index = EmptyMap /\ dev_index = EmptyMap
        /\ row_counts = [prod |-> NotCounted, dev |-> NotCounted]
        /\ outcome.kind # "result"
        /\ pc = "error" =>
              LET side == IF MissingFrom(prod_file) # <<>> THEN prod_file ELSE dev_file
              IN  /\ outcome.kind = "error"
                  /\ outcome.side = (IF MissingFrom(prod_file) # <<>>
                                     THEN "production" ELSE "development")
                  /\ outcome.missing = MissingFrom(side)
                  /\ outcome.available = SortStrings(Range(side.header))

\* the diff has failed on a dev file that has a data row and lacks a key
\* column the prod file has
C9_Witness ==
    /\ pc = "error"
    /\ MissingFrom(prod_file) = <<>>
    /\ MissingFrom(dev_file) # <<>>
    /\ prod_file.rows # <<>> /\ dev_file.rows # <<>>
    /\ outcome.kind = "error"
    /\ outcome.side = "development"

\* C10: rows_added is the number of distinct composite keys that occur in the
\* dev table and not in the prod index: a new key that occurs N times adds 1.
C10_AddedCountsDistinctKeys ==
    Returned =>
        outcome.rows_added = Cardinality(KeysOf(dev_file) \ KeysOf(prod_file))

\* a diff has returned for a dev table that repeats a key the index of a
\* non-empty prod table lacks
C10_Witness ==
    /\ Returned
    /\ prod_index # EmptyMap
    /\ \E key \in KeysOf(dev_file) \ KeysOf(prod_file) :
          Cardinality(Occurrences(dev_file, key)) > 1
    /\ outcome.rows_added = 1

\* C11: rows_removed is the number of distinct composite keys in the prod
\* index that the fully built dev index lacks, each counted once however
\* often the key repeats in prod.
C11_RemovedCountsDistinctKeys ==
    Returned =>
        outcome.rows_removed = Cardinality(KeysOf(prod_file) \ KeysOf(dev_file))

\* a diff has returned for a prod table that repeats a key the index of a
\* non-empty dev table lacks
C11_Witness ==
    /\ Returned
    /\ dev_index # EmptyMap
    /\ \E key \in KeysOf(prod_file) \ KeysOf(dev_file) :
          Cardinality(Occurrences(prod_file, key)) > 1
    /\ outcome.rows_removed = 1

\* C12: every key that Pass 2 put in the meaningful-change set is found by
\* Pass 3 to differ in at least one common non-noise column
\* (has_meaningful_change is true for it), for every header set.
C12_MeaningfulHasNonNoiseDiff ==
    pc = "compare" =>
        \A key \in meaningful_change_keys :
            /\ key \in DOMAIN needed_prod_rows
            /\ key \in DOMAIN needed_dev_rows
            /\ MeaningfulDiffColumns(needed_prod_rows[key],
                                     needed_dev_rows[key].row) # {}

\* a list of strings in strictly ascending order
IsSorted(list) == \A m, n \in 1..Len(list) : m < n => StrLess(list[m], list[n])

\* C13: in every successful result common_keys, prod_only_keys and
\* dev_only_keys are sorted, pairwise disjoint and together the union of the
\* two header sets: the intersection, the columns only in prod and the columns
\* only in dev; prod_row_count and dev_row_count are each reader's count_rows().
C13_SchemaMetadata ==
    Returned =>
        LET P == Range(prod_file.header)
            D == Range(dev_file.header)
            common == Range(outcome.common_keys)
            only_prod == Range(outcome.prod_only_keys)
            only_dev == Range(outcome.dev_only_keys)
        IN  /\ IsSorted(outcome.common_keys)
            /\ IsSorted(outcome.prod_only_keys)
            /\ IsSorted(outcome.dev_only_keys)
            /\ common = P \cap D
            /\ only_prod = P \ D
            /\ only_dev = D \ P
            /\ common \cap only_prod = {}
            /\ common \cap only_dev = {}
            /\ only_prod \cap only_dev = {}
            /\ common \cup only_prod \cup only_dev = P \cup D
            /\ outcome.prod_row_count = count_rows(prod_file, max_rows)
            /\ outcome.dev_row_count = count_rows(dev_file, max_rows)

\* a diff has returned for two files with rows whose headers share two
\* columns, listed in another order than the sorted one, and each have a
\* column of their own
C13_Witness ==
    /\ Returned
    /\ Len(outcome.common_keys) >= 2
    /\ outcome.prod_only_keys # <<>>
    /\ outcome.dev_only_keys # <<>>
    /\ outcome.common_keys # SelectSeq(prod_file.header,
                                       LAMBDA c : c \in Range(dev_file.header))
    /\ outcome.prod_row_count = 1
    /\ outcome.dev_row_count = 1

\* the display key as the glossary gives it: the value of the key column, or
\* the values of the key columns in configured order joined with '_', an
\* absent value shown as <missing>
DisplayOf(row) ==
    LET shown(k) == IF row[k] = PyNone THEN "<missing>" ELSE row[k]
    IN  IF Len(primary_keys) = 1 THEN shown(primary_keys[1])
        ELSE Join([n \in 1..Len(primary_keys) |-> shown(primary_keys[n])], "_")

RowsOf(file) ==
    {iterate_rows_with_line_numbers(file, n).row : n \in 1..RowsYielded(file, max_rows)}

\* C14: the display key of a row is the key column's value when there is one
\* key column and the key columns' values joined with '_' in configured order
\* when there are several, an absent value being shown as <missing>.
C14_DisplayKey ==
    /\ \A key \in DOMAIN prod_index :
          prod_index[key].display = DisplayOf(LastRowOf(prod_file, key))
    /\ DOMAIN example_ids_added \subseteq {DisplayOf(row) : row \in RowsOf(dev_file)}
    /\ DOMAIN example_ids_removed \subseteq {DisplayOf(row) : row \in RowsOf(prod_file)}
    /\ DOMAIN example_ids \subseteq {DisplayOf(row) : row \in RowsOf(dev_file)}

\* keyed by sku,locale, the prod row sku=A, locale=de was removed and shown
\* as A_de, and a dev row without locale was added and shown as A_<missing>
C14_Witness ==
    /\ Returned
    /\ primary_keys = <<"sku", "locale">>
    /\ DOMAIN outcome.example_ids_removed = {"A_de"}
    /\ DOMAIN outcome.example_ids_added = {"A_<missing>"}

\* the keyword was given to EfficientDiffer(...), and with which value
Given(keyword) == \E o \in options : o[1] = keyword
ValueOf(keyword) == (CHOOSE o \in options : o[1] = keyword)[2]

\* construction and compute_diff are over, with a result or an error
Ended == pc \in {"done", "error"}

\* str.strip() of blanks
RECURSIVE Strip(_)
Strip(s) ==
    IF Len(s) = 0 THEN s
    ELSE IF Char(s, 1) = " " THEN Strip(SubSeq(s, 2, Len(s)))
    ELSE IF Char(s, Len(s)) = " " THEN Strip(SubSeq(s, 1, Len(s) - 1))
    ELSE s

\* each file has one row, with the same id and names that differ
SameIdOtherName ==
    /\ Len(prod_file.rows) = 1 /\ Len(dev_file.rows) = 1
    /\ prod_file.header = dev_file.header
    /\ ProdRow(1).row["id"] = DevRow(1).row["id"]
    /\ ProdRow(1).row["name"] # DevRow(1).row["name"]

CaseOnlyChange ==
    /\ SameIdOtherName
    /\ Lower(ProdRow(1).row["name"]) = Lower(DevRow(1).row["name"])

WhitespaceOnlyChange ==
    /\ SameIdOtherName
    /\ Strip(ProdRow(1).row["name"]) = Strip(DevRow(1).row["name"])

\* C15: EfficientDiffer accepts case_sensitive; with case_sensitive=True a row
\* that differs from its counterpart only in letter case is counted in
\* rows_updated, with case_sensitive=False it is not (rows_updated = 0).
C15_CaseSensitiveOption ==
    (Ended /\ Given("case_sensitive")) =>
        /\ outcome.kind = "result"
        /\ CaseOnlyChange =>
              outcome.rows_updated = (IF ValueOf("case_sensitive") THEN 1 ELSE 0)

\* C16: EfficientDiffer accepts trim_whitespace, on by default; with trimming
\* a row that differs from its counterpart only in leading or trailing
\* whitespace is not counted as updated (rows_updated = 0), with
\* trim_whitespace=False it is (rows_updated = 1).
C16_TrimWhitespaceOption ==
    (Ended /\ ~Given("case_sensitive")) =>
        /\ outcome.kind = "result"
        /\ WhitespaceOnlyChange =>
              outcome.rows_updated =
                 (IF Given("trim_whitespace") /\ ~ValueOf("trim_whitespace")
                  THEN 1 ELSE 0)

\* C17: the line number iterate_rows_with_line_numbers yields with a row is the
\* line of the file on which that row starts, also after a multi-line quoted
\* field, a skipped blank line or a header of several lines: the entry each
\* scan has just written for the row it read carries that row's starting line.
C17_LineIsRowStart ==
    /\ (pc = "pass1" /\ i > 0) =>
          prod_index[_make_composite_key(ProdRow(i).row)].line = StartLine(prod_file, i)
    /\ (pc = "pass2" /\ i > 0) =>
          dev_index[_make_composite_key(DevRow(i).row)].line = StartLine(dev_file, i)

\* C18: for a row cap of 0 or more, or none, count_rows() is the number of
\* logical data rows truncated at the cap, which is the number of rows the
\* reader yields; a later call returns the value cached by the first one.
C18_CountIsRowsYielded ==
    /\ row_counts.prod # NotCounted => row_counts.prod = RowsYielded(prod_file, max_rows)
    /\ row_counts.dev # NotCounted => row_counts.dev = RowsYielded(dev_file, max_rows)
    /\ Returned => /\ outcome.prod_row_count = row_counts.prod
                   /\ outcome.dev_row_count = row_counts.dev

\* C19: when the detected header delimiter differs from the detected data
\* delimiter, every row the reader yields is keyed by exactly the column names
\* read_headers() returns: so is the row each scan has just read.
C19_RowsKeyedByHeaders ==
    /\ (pc = "pass1" /\ i > 0 /\ _header_delimiter(prod_file) # delimiter(prod_file)) =>
          DOMAIN ProdRow(i).row = Range(read_headers(prod_file))
    /\ (pc = "pass2" /\ i > 0 /\ _header_delimiter(dev_file) # delimiter(dev_file)) =>
          DOMAIN DevRow(i).row = Range(read_headers(dev_file))

\* C20: two rows, of the same table or of the two tables, get the same composite
\* key if and only if they have the same value in every configured key column,
\* also when a value contains the '||' the key is joined with.
C20_CompositeKeyIdentifiesRow ==
    Indexed =>
        \A r1, r2 \in RowsOf(prod_file) \cup RowsOf(dev_file) :
            (_make_composite_key(r1) = _make_composite_key(r2))
                <=> (\A n \in 1..Len(primary_keys) :
                        r1[primary_keys[n]] = r2[primary_keys[n]])

\* the scans of Phase 3 and the comparison that follows them
InPass3 == pc \in {"pass3_prod", "pass3_dev", "compare"}

\* C22: full row contents are held only during Pass 3 and only for keys of the
\* changed-key set; each index holds one entry per distinct key read so far,
\* made of line number, digests and display key only.
C22_RowsOnlyForChangedKeys ==
    /\ DOMAIN needed_prod_rows \subseteq all_changed_keys
    /\ DOMAIN needed_dev_rows \subseteq all_changed_keys
    /\ (needed_prod_rows # EmptyMap \/ needed_dev_rows # EmptyMap) => InPass3
    /\ DOMAIN prod_index \subseteq KeysOf(prod_file)
    /\ DOMAIN dev_index \subseteq KeysOf(dev_file)
    /\ Indexed => /\ DOMAIN prod_index = KeysOf(prod_file)
                  /\ DOMAIN dev_index = KeysOf(dev_file)
    /\ \A key \in DOMAIN prod_index :
          DOMAIN prod_index[key] = {"line", "full", "comp", "display"}
    /\ \A key \in DOMAIN dev_index :
          DOMAIN dev_index[key] \subseteq {"line", "full", "comp", "display"}

\* Pass 3 holds the rows of a changed key while the index holds another key,
\* whose row is not kept
C22_Witness ==
    /\ pc = "compare"
    /\ needed_prod_rows # EmptyMap /\ needed_dev_rows # EmptyMap
    /\ DOMAIN prod_index \ all_changed_keys # {}

\* the keys of both indexes whose stored full digests differ
FullDigestDiffers ==
    {key \in DOMAIN prod_index \cap DOMAIN dev_index :
        prod_index[key].full # dev_index[key].full}

C25_ExamplesDetermined ==
    (AfterAgain /\ max_examples = prev.max_examples) =>
        /\ outcome.example_ids = prev.result.example_ids
        /\ outcome.example_ids_added = prev.result.example_ids_added
        /\ outcome.example_ids_removed = prev.result.example_ids_removed

Min(a, b) == IF a < b THEN a ELSE b

\* C28: in every successful result each example mapping has exactly
\* min(max_examples, corresponding count) entries, also when distinct composite
\* keys render to the same display key.
C28_ExampleCountIsMin ==
    Returned =>
        /\ Size(outcome.example_ids) = Min(max_examples, outcome.rows_updated)
        /\ Size(outcome.example_ids_added) = Min(max_examples, outcome.rows_added)
        /\ Size(outcome.example_ids_removed) = Min(max_examples, outcome.rows_removed)

\* C29: in every successful result each key of detailed_key_update_counts is a
\* common column that matches no noise pattern, and its tally is at least 1 and
\* at most rows_updated.
C29_TalliesWithinUpdated ==
    Returned =>
        \A column \in DOMAIN outcome.detailed_key_update_counts :
            /\ column \in common_keys
            /\ ~_is_excluded_column(column)
            /\ outcome.detailed_key_update_counts[column] >= 1
            /\ outcome.detailed_key_update_counts[column] <= outcome.rows_updated

\* the B-index is not yet fully built
BeforeClassification == pc \in {"start", "pass1", "pass2"}

\* the hash comparison of Pass 2 is over
Classified == pc \in {"removed", "pass3_prod", "pass3_dev", "compare", "finish", "done"}

\* C30: the meaningful-change keys and the noise-only keys are disjoint; once
\* Pass 2 has classified, their union is the set of keys of both indexes whose
\* stored full digests differ, and rows_updated + rows_updated_excluded_only is
\* the size of that set; in the result (distinct keys of A) - rows_removed =
\* (distinct keys of B) - rows_added; no key is classified before the B-index
\* is fully built.
C30_Pass2Partition ==
    /\ meaningful_change_keys \cap excluded_only_keys = {}
    /\ BeforeClassification =>
          /\ meaningful_change_keys = {} /\ excluded_only_keys = {}
          /\ counts.meaningful = 0 /\ counts.excluded_only = 0
    /\ Classified =>
          /\ meaningful_change_keys \cup excluded_only_keys = FullDigestDiffers
          /\ counts.meaningful + counts.excluded_only = Cardinality(FullDigestDiffers)
          /\ counts.meaningful = Cardinality(meaningful_change_keys)
          /\ counts.excluded_only = Cardinality(excluded_only_keys)
    /\ Returned =>
          /\ outcome.rows_updated + outcome.rows_updated_excluded_only
                = Cardinality(FullDigestDiffers)
          /\ Cardinality(DOMAIN prod_index) - outcome.rows_removed
                = Cardinality(DOMAIN dev_index) - outcome.rows_added

\* a diff has returned with one key removed and another key, of both tables,
\* changed in a noise column only
C30_Witness ==
    /\ Returned
    /\ outcome.rows_removed = 1
    /\ outcome.rows_updated_excluded_only = 1
    /\ Cardinality(DOMAIN prod_index) = 2
    /\ Cardinality(DOMAIN dev_index) = 1

(***************************************************************************)
(* C21: at every moment, in folder mode and in URL mode, the number of     *)
(* compute_diff invocations in progress (called in a worker thread and not *)
(* yet returned) is at most max_concurrent_diffs, whatever the number of   *)
(* table pairs and the order in which fetches and diffs complete.          *)
(***************************************************************************)
C21_DiffsBounded == Cardinality(DiffsInProgress) <= max_concurrent_diffs

\* the limit is reached while another diff task waits for the semaphore
C21_Witness ==
    /\ Cardinality(DiffsInProgress) = max_concurrent_diffs
    /\ max_concurrent_diffs = MaxConcurrency
    /\ \E k \in DOMAIN diff_semaphore.waiters : ~diff_semaphore.waiters[k].woken

(***************************************************************************)
(* C26: in URL mode at most one diff task is ever created for a test case, *)
(* and only once both the prod and the dev fetch of the case have          *)
(* completed and process_test_case has recorded them; for a case whose     *)
(* diff is pending or finished, maybe_start_diff creates nothing even when *)
(* both fetch results are on record.                                       *)
(***************************************************************************)
BothRecorded(test_case) ==
    [c \in DOMAIN results \cup {test_case} |->
        IF c = test_case THEN {"prod", "dev"} ELSE results[c]]

C26_OneDiffPerCase ==
    mode = "url" =>
        \A c \in Cases :
            /\ started[c] <= 1
            /\ started[c] = 1 =>
                    /\ fetch_task[c].fetched = {"prod", "dev"}
                    /\ fetch_task[c].pc = "done"
            /\ (c \in pending_diffs \/ c \in DOMAIN diff_results) =>
                    /\ started[c] = 1
                    /\ ~maybe_start_diff(c, BothRecorded(c))

\* one case's diff has finished and been stored while another's is pending
C26_Witness ==
    /\ mode = "url"
    /\ \E c, d \in Cases :
        /\ c \in DOMAIN diff_results
        /\ d \in pending_diffs
        /\ started[c] = 1
        /\ started[d] = 1

(***************************************************************************)
(* C27: in URL mode, when the overall summary is assembled, diff_results   *)
(* holds an entry for every test case whose diff task was started,         *)
(* pending_diffs is empty, and no done-callback of a diff task or          *)
(* on_diff_complete task is still waiting to run.                          *)
(***************************************************************************)
DiffStarted == {c \in Cases : started[c] > 0}

CompletionOutstanding ==
    \E k \in DOMAIN ready : ready[k].run \in {"done_callback", "on_diff_complete"}

C27_SummaryComplete ==
    (mode = "url" /\ summary # NoSummary) =>
        /\ DiffStarted \subseteq DOMAIN summary.overall
        /\ DiffStarted \subseteq DOMAIN diff_results
        /\ pending_diffs = {}
        /\ ~CompletionOutstanding

(***************************************************************************)
(* C23: when the summaries are written, every table pair for which         *)
(* compute_diff raised is recorded with an "error" entry and non_200 set;  *)
(* if some compute_diff raised, every other job has still run to           *)
(* completion and is recorded; and a job recorded with an error is in the  *)
(* errors summary (URL mode) and never in the updates summary.             *)
(***************************************************************************)
Raising == {c \in Cases : test_cases[c] = "raises"}

RecordedAsFailure(c) ==
    /\ c \in DOMAIN summary.overall
    /\ summary.overall[c].error
    /\ summary.overall[c].non_200

C23_FailuresRecorded ==
    summary # NoSummary =>
        /\ \A c \in Raising : RecordedAsFailure(c)
        /\ Raising # {} =>
                \A c \in Cases : diff_task[c].pc = "done" /\ c \in DOMAIN summary.overall
        /\ \A c \in DOMAIN summary.overall :
                summary.overall[c].error =>
                    /\ mode = "url" => c \in summary.errors
                    /\ c \notin summary.updates

====
